---- MODULE Spec2Model ----
(***************************************************************************)
(* Model of user-rotation/lambda/rotate_secret.py: the four-step secret    *)
(* rotation (createSecret, setSecret, testSecret, finishSecret) behind     *)
(* lambda_handler, run by concurrent invocations against a versioned       *)
(* secret store and a PostgreSQL database.  Every store call and every     *)
(* database call of an invocation is one atomic step; invocations share    *)
(* nothing but the store and the database.                                 *)
(***************************************************************************)
EXTENDS Integers, Sequences, FiniteSets, TLC

(* ------------------------------ bounds -------------------------------- *)
\* Number of version tokens the rotation trigger issues to concurrent
\* invocations, and to invocations run one at a time.
MaxRotations == 3
MaxSerialRotations == 2
\* Number of distinct values the password generator can return.
NumPasswords == 2

(* ----------------------------- constants ------------------------------ *)
\* len(new_username) > 63
MaxUsernameLen == 63
\* MAX_RDS_DB_INSTANCE_ARN_LENGTH
MAX_RDS_DB_INSTANCE_ARN_LENGTH == 256

Procs == {"A", "B"}
Versions == 0 .. MaxRotations
NoToken == -1
Labels == {"AWSCURRENT", "AWSPENDING", "AWSPREVIOUS"}
StepNames == {"createSecret", "setSecret", "testSecret", "finishSecret"}
\* step values an event can carry: the four names and an unrecognised one
Steps == StepNames \cup {"rotateSecret"}

\* Passwords are tagged pairs; the generator draws from GenPasswords.
InitPassword == <<"init", 0>>
MasterPassword == <<"master", 0>>
NoRole == <<"norole", 0>>
GenPasswords == {<<"gen", n>> : n \in 1 .. NumPasswords}

(* ------------------------- get_alt_username --------------------------- *)
\* Strings are sequences of characters.
clone_suffix == <<"_", "c", "l", "o", "n", "e">>
UsernameTooLong == <<"!UsernameTooLong">>

endswith(s, suf) ==
  /\ Len(s) >= Len(suf)
  /\ SubSeq(s, Len(s) - Len(suf) + 1, Len(s)) = suf

\* Mutant: a name is refused already when the appended form has 63 characters.
get_alt_username_ge(current_username) ==
  IF endswith(current_username, clone_suffix)
  THEN SubSeq(current_username, 1, Len(current_username) - Len(clone_suffix))
  ELSE LET new_username == current_username \o clone_suffix
       IN IF Len(new_username) >= MaxUsernameLen
          THEN UsernameTooLong
          ELSE new_username

get_alt_username(current_username) ==
  IF endswith(current_username, clone_suffix)
  THEN SubSeq(current_username, 1, Len(current_username) - Len(clone_suffix))
  ELSE LET new_username == current_username \o clone_suffix
       IN IF Len(new_username) > MaxUsernameLen
          THEN UsernameTooLong
          ELSE new_username

(* --------------------------- get_ssl_config --------------------------- *)
\* An ssl value is tagged with its JSON type: [type |-> "bool", b |-> ...],
\* [type |-> "str", s |-> <characters>] or [type |-> "other"].
lower(s) ==
  [k \in 1 .. Len(s) |->
     CASE s[k] = "T" -> "t" [] s[k] = "R" -> "r" [] s[k] = "U" -> "u"
       [] s[k] = "E" -> "e" [] s[k] = "F" -> "f" [] s[k] = "A" -> "a"
       [] s[k] = "L" -> "l" [] s[k] = "S" -> "s" [] OTHER -> s[k]]

\* <<use_ssl, fall_back>>
\* Mutant: the string is compared as it is written.
get_ssl_config_exact(secret_dict) ==
  IF "ssl" \notin DOMAIN secret_dict THEN <<TRUE, TRUE>>
  ELSE IF secret_dict.ssl.type = "bool" THEN <<secret_dict.ssl.b, FALSE>>
  ELSE IF secret_dict.ssl.type = "str"
       THEN LET ssl == secret_dict.ssl.s
            IN IF ssl = <<"t", "r", "u", "e">> THEN <<TRUE, FALSE>>
               ELSE IF ssl = <<"f", "a", "l", "s", "e">> THEN <<FALSE, FALSE>>
               ELSE <<TRUE, TRUE>>
  ELSE <<TRUE, TRUE>>

get_ssl_config(secret_dict) ==
  IF "ssl" \notin DOMAIN secret_dict THEN <<TRUE, TRUE>>
  ELSE IF secret_dict.ssl.type = "bool" THEN <<secret_dict.ssl.b, FALSE>>
  ELSE IF secret_dict.ssl.type = "str"
       THEN LET ssl == lower(secret_dict.ssl.s)
            IN IF ssl = <<"t", "r", "u", "e">> THEN <<TRUE, FALSE>>
               ELSE IF ssl = <<"f", "a", "l", "s", "e">> THEN <<FALSE, FALSE>>
               ELSE <<TRUE, TRUE>>
  ELSE <<TRUE, TRUE>>

(* ------------------------------- state -------------------------------- *)
VARIABLES
  stages,          \* secret store: version id -> set of stage labels
  payload,         \* secret store: version id -> SecretString (or NoValue)
  rotationEnabled, \* secret metadata: "absent", "true" or "false"
  issued,          \* number of version tokens the trigger has issued
  masterSecret,    \* the master secret's AWSCURRENT SecretString
  masterTags,      \* the master secret's metadata (Tags may be absent)
  rds,             \* control plane: DescribeDBInstances / DescribeDBClusters
  roles,           \* database: role name -> password (or NoRole)
  grants,          \* database: set of <<role, member>> memberships
  inv,             \* per invocation: position and local variables
  serial,          \* TRUE: invocations run one at a time and are recorded
  last,            \* serial runs: the invocation that ended last, and how
  tested,          \* serial runs: tokens whose testSecret has succeeded
  call             \* a helper function called on its own: arguments, results

vars == <<stages, payload, rotationEnabled, issued, masterSecret, masterTags,
          rds, roles, grants, inv, serial, last, tested, call>>
storeVars == <<stages, payload, rotationEnabled, issued, masterSecret, masterTags>>
dbVars == <<roles, grants>>

NoValue == [novalue |-> TRUE]
Err(kind) == [err |-> kind]
IsErr(d) == "err" \in DOMAIN d

\* Character sequences used in host names and user names.
S_app == <<"a", "p", "p">>
S_admin == <<"a", "d", "m", "i", "n">>
S_db1 == <<"d", "b", "1">>
S_db2 == <<"d", "b", "2">>
S_cluster == <<"c", "l", "u", "s", "t", "e", "r">>
S_xyz == <<"x", "y", "z">>
S_rds == <<"r", "d", "s">>

\* A host is the sequence of its dot-separated labels: host.split(".")
Host(first, second) == <<first, second, S_rds>>
PrimaryHost == Host(S_db1, S_xyz)

\* A read replica instance, a cluster's writer endpoint and its reader
\* endpoint.
S_rep == <<"r", "e", "p">>
S_cluster_x == S_cluster \o <<"-", "x">>
S_cluster_ro_x == S_cluster \o <<"-", "r", "o", "-", "x">>
ReplicaHost == Host(S_rep, S_xyz)
ClusterHost == Host(S_db1, S_cluster_x)
ReaderHost == Host(S_db1, S_cluster_ro_x)

Usernames == {S_app, S_app \o clone_suffix, S_admin}

(* ------------------------ secret store service ------------------------ *)
\* metadata['VersionIdsToStages']: the versions that carry a label
VersionIdsToStages == [v \in {w \in Versions : stages[w] # {}} |-> stages[v]]

\* get_secret_value(SecretId, VersionId?, VersionStage)
get_secret_value(arn, stage, token) ==
  IF arn = "master"
  THEN IF stage = "AWSCURRENT" /\ token = NoToken
       THEN masterSecret ELSE Err("ResourceNotFound")
  ELSE LET holders == {v \in Versions : stage \in stages[v] /\ payload[v] # NoValue
                                        /\ (token = NoToken \/ v = token)}
       IN IF holders = {} THEN Err("ResourceNotFound")
          ELSE payload[CHOOSE v \in holders : TRUE]

\* put_secret_value(SecretId, ClientRequestToken, SecretString, VersionStages):
\* a version's value is immutable; the listed labels move to the version.
PutAccepted(token, dict) == payload[token] = NoValue \/ payload[token] = dict

put_secret_value_payload(token, dict) ==
  IF payload[token] = NoValue THEN [payload EXCEPT ![token] = dict] ELSE payload

\* Mutant: the new version is staged as AWSCURRENT, whatever labels are asked.
put_secret_value_stages_current(token, dict, labels) ==
  IF payload[token] = NoValue
  THEN [v \in Versions |->
          IF v = token THEN stages[v] \cup {"AWSCURRENT"}
          ELSE stages[v] \ {"AWSCURRENT"}]
  ELSE stages

put_secret_value_stages(token, dict, labels) ==
  IF payload[token] = NoValue
  THEN [v \in Versions |->
          IF v = token THEN stages[v] \cup labels ELSE stages[v] \ labels]
  ELSE stages

\* update_secret_version_stage(VersionStage, MoveToVersionId, RemoveFromVersionId)
\* The call fails when the label is attached to a version other than the one
\* named by RemoveFromVersionId; moving AWSCURRENT also moves AWSPREVIOUS to
\* the version AWSCURRENT was removed from.
MoveAccepted(stage, moveTo, removeFrom) ==
  /\ stages[moveTo] # {} \/ payload[moveTo] # NoValue
  /\ removeFrom # NoToken
  /\ \A v \in Versions : stage \in stages[v] => v = removeFrom
  /\ stage \in stages[removeFrom]

update_secret_version_stage(stage, moveTo, removeFrom) ==
  [v \in Versions |->
     LET moved == IF v = moveTo THEN stages[v] \cup {stage}
                  ELSE IF v = removeFrom THEN stages[v] \ {stage}
                  ELSE stages[v]
     IN IF stage = "AWSCURRENT" /\ moveTo # removeFrom
        THEN IF v = removeFrom THEN moved \cup {"AWSPREVIOUS"}
             ELSE moved \ {"AWSPREVIOUS"}
        ELSE moved]

(* ------------------------- control-plane API -------------------------- *)
\* rds.instances[id] and rds.clusters[id] are the lists DescribeDBInstances
\* and DescribeDBClusters return; an id outside the domain is an API fault.
get_instance_info_from_rds_api(instance_id) ==
  IF instance_id \notin DOMAIN rds.instances THEN Err("Exception")
  ELSE IF Len(rds.instances[instance_id]) = 0 THEN Err("ValueError")
  ELSE rds.instances[instance_id][1]

get_cluster_info_from_rds_api(cluster_id) ==
  IF cluster_id \notin DOMAIN rds.clusters THEN Err("Exception")
  ELSE IF Len(rds.clusters[cluster_id]) = 0 THEN Err("ValueError")
  ELSE rds.clusters[cluster_id][1]

\* 'cluster' in label
Contains(label, sub) ==
  \E k \in 1 .. Len(label) : k + Len(sub) - 1 <= Len(label)
                             /\ SubSeq(label, k, k + Len(sub) - 1) = sub

EmptyInfo == [empty |-> TRUE]

get_cluster_info_from_master_host(master_dict) ==
  LET master_instance_id == master_dict.host[1]
      current_instance == get_instance_info_from_rds_api(master_instance_id)
      cluster_info ==
        IF Contains(master_dict.host[2], S_cluster)
        THEN get_cluster_info_from_rds_api(master_instance_id)
        ELSE IF IsErr(current_instance) THEN current_instance
        ELSE IF "DBClusterIdentifier" \notin DOMAIN current_instance THEN EmptyInfo
        ELSE get_cluster_info_from_rds_api(current_instance.DBClusterIdentifier)
  IN IF IsErr(cluster_info) \/ cluster_info = EmptyInfo THEN cluster_info
     ELSE [reader_endpoint |->
             IF "ReaderEndpoint" \in DOMAIN cluster_info
             THEN cluster_info.ReaderEndpoint ELSE <<>>,
           instance_ids |->
             IF "DBClusterMembers" \in DOMAIN cluster_info
             THEN [k \in 1 .. Len(cluster_info.DBClusterMembers) |->
                     [instance_id |-> cluster_info.DBClusterMembers[k].DBInstanceIdentifier,
                      is_writer |-> cluster_info.DBClusterMembers[k].IsClusterWriter]]
             ELSE <<>>]

\* Mutant: every member of the cluster counts, the writer too.
is_rds_replica_database_any_member(replica_dict, master_dict) ==
  LET replica_instance_id == replica_dict.host[1]
      master_instance_id == master_dict.host[1]
  IN IF master_dict.engine = "postgres"
     THEN LET current_instance == get_instance_info_from_rds_api(replica_instance_id)
          IN IF IsErr(current_instance) THEN current_instance
             ELSE [ret |-> "ReadReplicaSourceDBInstanceIdentifier" \in DOMAIN current_instance
                           /\ master_instance_id =
                                current_instance.ReadReplicaSourceDBInstanceIdentifier]
     ELSE IF master_dict.engine = "aurora-postgresql"
     THEN LET replica_info == get_cluster_info_from_master_host(master_dict)
          IN IF IsErr(replica_info) THEN replica_info
             ELSE IF replica_info = EmptyInfo THEN [ret |-> FALSE]
             ELSE LET is_reader_endpoint == replica_dict.host = replica_info.reader_endpoint
                      is_reader_instance ==
                        \E k \in 1 .. Len(replica_info.instance_ids) :
                          replica_instance_id = replica_info.instance_ids[k].instance_id
                  IN [ret |-> is_reader_endpoint \/ is_reader_instance]
     ELSE [ret |-> FALSE]

\* TRUE, FALSE, or Err(...) when a control-plane lookup raises
is_rds_replica_database(replica_dict, master_dict) ==
  LET replica_instance_id == replica_dict.host[1]
      master_instance_id == master_dict.host[1]
  IN IF master_dict.engine = "postgres"
     THEN LET current_instance == get_instance_info_from_rds_api(replica_instance_id)
          IN IF IsErr(current_instance) THEN current_instance
             ELSE [ret |-> "ReadReplicaSourceDBInstanceIdentifier" \in DOMAIN current_instance
                           /\ master_instance_id =
                                current_instance.ReadReplicaSourceDBInstanceIdentifier]
     ELSE IF master_dict.engine = "aurora-postgresql"
     THEN LET replica_info == get_cluster_info_from_master_host(master_dict)
          IN IF IsErr(replica_info) THEN replica_info
             ELSE IF replica_info = EmptyInfo THEN [ret |-> FALSE]
             ELSE LET is_reader_endpoint == replica_dict.host = replica_info.reader_endpoint
                      is_reader_instance ==
                        \E k \in 1 .. Len(replica_info.instance_ids) :
                          /\ replica_instance_id = replica_info.instance_ids[k].instance_id
                          /\ ~ replica_info.instance_ids[k].is_writer
                  IN [ret |-> is_reader_endpoint \/ is_reader_instance]
     ELSE [ret |-> FALSE]

(* ---------------------------- get_secret_dict ------------------------- *)
LowerKey(key) ==
  CASE key = "aws:rds:primaryDBInstanceArn" -> "aws:rds:primarydbinstancearn"
    [] key = "aws:rds:primaryDBClusterArn" -> "aws:rds:primarydbclusterarn"
    [] OTHER -> key

ArnTagKeys == {"aws:rds:primarydbinstancearn", "aws:rds:primarydbclusterarn"}

\* Mutant: an ARN of exactly the maximum length is refused.
fetch_instance_arn_from_system_tags_ge(metadata) ==
  IF "Tags" \notin DOMAIN metadata THEN EmptyInfo
  ELSE LET tags == metadata.Tags
           hits == {k \in 1 .. Len(tags) : LowerKey(tags[k].Key) \in ArnTagKeys}
       IN IF hits = {} THEN EmptyInfo
          ELSE LET lastHit == CHOOSE k \in hits : \A j \in hits : j <= k
                   info == [ARN_SYSTEM_TAG |-> LowerKey(tags[lastHit].Key),
                            ARN |-> tags[lastHit].Value]
               IN IF Len(info.ARN) >= MAX_RDS_DB_INSTANCE_ARN_LENGTH
                  THEN Err("InvalidArn") ELSE info

\* {} (modelled EmptyInfo), [ARN_SYSTEM_TAG, ARN], or Err("InvalidArn")
fetch_instance_arn_from_system_tags(metadata) ==
  IF "Tags" \notin DOMAIN metadata THEN EmptyInfo
  ELSE LET tags == metadata.Tags
           hits == {k \in 1 .. Len(tags) : LowerKey(tags[k].Key) \in ArnTagKeys}
       IN IF hits = {} THEN EmptyInfo
          ELSE LET lastHit == CHOOSE k \in hits : \A j \in hits : j <= k
                   info == [ARN_SYSTEM_TAG |-> LowerKey(tags[lastHit].Key),
                            ARN |-> tags[lastHit].Value]
               IN IF Len(info.ARN) > MAX_RDS_DB_INSTANCE_ARN_LENGTH
                  THEN Err("InvalidArn") ELSE info

Merge(d, upd) ==
  [k \in DOMAIN d \cup DOMAIN upd |-> IF k \in DOMAIN upd THEN upd[k] ELSE d[k]]

get_connection_params_from_rds_api(master_dict, master_instance_info) ==
  IF master_instance_info.ARN_SYSTEM_TAG = "aws:rds:primarydbinstancearn"
  THEN LET primary_instance == get_instance_info_from_rds_api(master_instance_info.ARN)
       IN IF IsErr(primary_instance) THEN primary_instance
          ELSE Merge(master_dict, [host |-> primary_instance.Endpoint.Address,
                                   port |-> primary_instance.Endpoint.Port,
                                   engine |-> primary_instance.Engine])
  ELSE LET primary_instance == get_cluster_info_from_rds_api(master_instance_info.ARN)
       IN IF IsErr(primary_instance) THEN primary_instance
          ELSE Merge(master_dict, [host |-> primary_instance.Endpoint,
                                   port |-> primary_instance.Port,
                                   engine |-> primary_instance.Engine])

required_fields == {"host", "username", "password", "engine"}
supported_engines == {"postgres", "aurora-postgresql"}

get_secret_dict(arn, stage, token, master_secret) ==
  LET secret == get_secret_value(arn, stage, token)
  IN IF IsErr(secret) THEN secret
     ELSE LET db_instance_info ==
                IF master_secret /\ DOMAIN secret = {"username", "password"}
                THEN fetch_instance_arn_from_system_tags(masterTags)
                ELSE EmptyInfo
              secret_dict ==
                IF IsErr(db_instance_info) THEN db_instance_info
                ELSE IF db_instance_info = EmptyInfo THEN secret
                ELSE get_connection_params_from_rds_api(secret, db_instance_info)
          IN IF IsErr(secret_dict) THEN secret_dict
             ELSE IF ~ (required_fields \subseteq DOMAIN secret_dict)
                  THEN Err("MissingField")
             ELSE IF secret_dict.engine \notin supported_engines
                  THEN Err("UnsupportedEngine")
             ELSE secret_dict

(* ------------------------------ database ------------------------------ *)
\* Hosts that reach the database server.
DbHosts == {PrimaryHost, ReplicaHost, ClusterHost, ReaderHost}

\* psycopg2.connect: TRUE for a connection, FALSE for None.  up is whether
\* the network and the server's SSL support let this attempt through.
connect_and_authenticate(secret_dict, use_ssl, up) ==
  /\ up
  /\ secret_dict.host \in DbHosts
  /\ secret_dict.username \in DOMAIN roles
  /\ roles[secret_dict.username] = secret_dict.password

get_connection(secret_dict, up1, up2) ==
  LET cfg == get_ssl_config(secret_dict)
      use_ssl == cfg[1]
      fall_back == cfg[2]
      conn == connect_and_authenticate(secret_dict, use_ssl, up1)
  IN IF conn \/ ~ fall_back THEN conn
     ELSE connect_and_authenticate(secret_dict, FALSE, up2)

(* ---------------------------- invocations ----------------------------- *)
\* Invocation slots are interchangeable: a serial run uses one of them.
SerialSlot == CHOOSE i \in Procs : TRUE

\* conn is the database session the invocation holds: "none", "master" or
\* "pending"; tx is what the session has executed and not committed.
Idle == [pc |-> "idle", step |-> "none", token |-> NoToken, cur |-> NoValue,
         pend |-> NoValue, master |-> NoValue, tx |-> "none", obs |-> NoToken,
         result |-> "none", conn |-> "none"]

\* The invocation returns (result "ok") or raises (any other result); the
\* session it holds is closed on the way out (finally: conn.close()).
Finished(i, res) ==
  [Idle EXCEPT !.pc = "done", !.step = inv[i].step, !.token = inv[i].token,
               !.result = res]

Goto(i, pc) == [inv[i] EXCEPT !.pc = pc]

NoLast == [step |-> "none", token |-> NoToken, result |-> "none", seq |-> FALSE]

\* The invocation moves on to out, or ends: it keeps nothing between calls.
\* A serial run records how the invocation ended; seq alternates, so that
\* two invocations ending alike are told apart.
Move(i, out) ==
  /\ inv' = [inv EXCEPT ![i] = IF out.pc = "done"
                                THEN [Idle EXCEPT !.conn = out.conn] ELSE out]
  /\ last' = IF out.pc = "done" /\ serial
             THEN [step |-> out.step, token |-> out.token, result |-> out.result,
                   seq |-> ~ last.seq]
             ELSE last
  /\ tested' = IF serial /\ inv[i].pc = "t_query" /\ out.pc = "done"
                          /\ out.result = "ok"
               THEN tested \cup {out.token} ELSE tested
  /\ UNCHANGED <<serial, call>>

InitialSecret ==
  [engine |-> "postgres", host |-> PrimaryHost, username |-> S_app,
   password |-> InitPassword, masterarn |-> "master"]

MasterDict ==
  [engine |-> "postgres", host |-> PrimaryHost, username |-> S_admin,
   password |-> MasterPassword]

NoRds == [instances |-> <<>>, clusters |-> <<>>]

\* No helper function is being called on its own.
NoCall == [op |-> "none"]

\* The secret as first stored: one version, AWSCURRENT, whose credential the
\* database accepts; the master role exists; nothing is in flight.
Start ==
  /\ stages = [v \in Versions |-> IF v = 0 THEN {"AWSCURRENT"} ELSE {}]
  /\ payload = [v \in Versions |-> IF v = 0 THEN InitialSecret ELSE NoValue]
  /\ rotationEnabled = "absent"
  /\ issued = 0
  /\ masterSecret = MasterDict
  /\ masterTags = [Name |-> "master"]
  /\ rds = NoRds
  /\ roles = [u \in Usernames |->
                IF u = S_app THEN InitPassword
                ELSE IF u = S_admin THEN MasterPassword ELSE NoRole]
  /\ grants = {}
  /\ inv = [i \in Procs |-> Idle]
  /\ last = NoLast
  /\ tested = {}

Init == Start /\ serial = FALSE /\ call = NoCall

\* The same secret, its invocations run one at a time.
SerialInit == Start /\ serial = TRUE /\ call = NoCall

(* The rotation trigger (RotateSecret): attaches AWSPENDING to a new version
   id, unless a rotation is still in progress.  The version has no value yet,
   or carries one written by whoever created it. *)
ForeignPayloads ==
  {[InitialSecret EXCEPT !.password = <<"gen", 1>>],
   [InitialSecret EXCEPT !.username = S_app \o clone_suffix,
                         !.password = <<"gen", 1>>,
                         !.host = Host(S_db2, S_xyz)]}

RotationInProgress ==
  \E v \in Versions : "AWSPENDING" \in stages[v] /\ "AWSCURRENT" \notin stages[v]

StartRotation(values, limit) ==
  /\ issued < limit
  /\ issued < MaxRotations
  /\ ~ RotationInProgress
  /\ issued' = issued + 1
  /\ rotationEnabled' = "true"
  /\ stages' = [v \in Versions |->
                  IF v = issued + 1 THEN {"AWSPENDING"}
                  ELSE stages[v] \ {"AWSPENDING"}]
  /\ \E value \in values :
       payload' = [payload EXCEPT ![issued + 1] = value]
  /\ UNCHANGED <<masterSecret, masterTags, rds, roles, grants, inv, serial, last,
                 tested, call>>

\* CancelRotateSecret: rotation is switched off; labels stay where they are.
CancelRotation ==
  /\ rotationEnabled = "true"
  /\ rotationEnabled' = "false"
  /\ UNCHANGED <<stages, payload, issued, masterSecret, masterTags, rds,
                 roles, grants, inv, serial, last, tested, call>>

(* ---------------------------- lambda_handler -------------------------- *)
\* Mutant: the AWSCURRENT test is missing.
Precheck_no_current(token, step) ==
  IF rotationEnabled = "false" THEN "NotEligible"
  ELSE IF token \notin DOMAIN VersionIdsToStages THEN "UnknownVersion"
  ELSE IF "AWSPENDING" \notin VersionIdsToStages[token] THEN "InvalidStage"
  ELSE IF step \in StepNames THEN "dispatch"
  ELSE "InvalidStep"

\* Mutant: the step name is looked at before the stage map.
Precheck_step_first(token, step) ==
  IF step \notin StepNames THEN "InvalidStep"
  ELSE IF rotationEnabled = "false" THEN "NotEligible"
  ELSE IF token \notin DOMAIN VersionIdsToStages THEN "UnknownVersion"
  ELSE IF "AWSCURRENT" \in VersionIdsToStages[token] THEN "return"
  ELSE IF "AWSPENDING" \notin VersionIdsToStages[token] THEN "InvalidStage"
  ELSE "dispatch"

\* Mutant: the AWSPENDING test is missing.
Precheck_no_pending(token, step) ==
  IF rotationEnabled = "false" THEN "NotEligible"
  ELSE IF token \notin DOMAIN VersionIdsToStages THEN "UnknownVersion"
  ELSE IF "AWSCURRENT" \in VersionIdsToStages[token] THEN "return"
  ELSE IF step \in StepNames THEN "dispatch"
  ELSE "InvalidStep"

\* describe_secret and the checks that precede the dispatch
Precheck(token, step) ==
  IF rotationEnabled = "false" THEN "NotEligible"
  ELSE IF token \notin DOMAIN VersionIdsToStages THEN "UnknownVersion"
  ELSE IF "AWSCURRENT" \in VersionIdsToStages[token] THEN "return"
  ELSE IF "AWSPENDING" \notin VersionIdsToStages[token] THEN "InvalidStage"
  ELSE IF step \in StepNames THEN "dispatch"
  ELSE "InvalidStep"

FirstPc(step) ==
  CASE step = "createSecret" -> "c_cur"
    [] step = "setSecret" -> "s_cur"
    [] step = "testSecret" -> "t_pend"
    [] step = "finishSecret" -> "f_desc"

lambda_handler(i, token, step) ==
  /\ inv[i].pc = "idle"
  /\ serial => i = SerialSlot
  /\ LET me == [Idle EXCEPT !.step = step, !.token = token]
         check == Precheck(token, step)
     IN Move(i,
                  IF check = "dispatch" THEN [me EXCEPT !.pc = FirstPc(step)]
                  ELSE [me EXCEPT !.pc = "done",
                                  !.result = IF check = "return" THEN "ok" ELSE check])
  /\ UNCHANGED <<storeVars, rds, dbVars>>

(* ----------------------------- create_secret -------------------------- *)
create_get_current(i) ==
  /\ inv[i].pc = "c_cur"
  /\ LET current_dict == get_secret_dict("secret", "AWSCURRENT", NoToken, FALSE)
     IN Move(i,
                  IF IsErr(current_dict) THEN Finished(i, current_dict.err)
                  ELSE [inv[i] EXCEPT !.pc = "c_pend", !.cur = current_dict])
  /\ UNCHANGED <<storeVars, rds, dbVars>>

\* Mutant: the pending version is taken to be missing whatever the read gave.
PendingNotFound_always(pending) == TRUE

\* except service_client.exceptions.ResourceNotFoundException
PendingNotFound(pending) == IsErr(pending) /\ pending.err = "ResourceNotFound"

create_get_pending(i) ==
  /\ inv[i].pc = "c_pend"
  /\ LET pending == get_secret_dict("secret", "AWSPENDING", inv[i].token, FALSE)
     IN Move(i,
                  IF PendingNotFound(pending) THEN Goto(i, "c_gen")
                  ELSE IF IsErr(pending) THEN Finished(i, pending.err)
                  ELSE Finished(i, "ok"))
  /\ UNCHANGED <<storeVars, rds, dbVars>>

\* Mutant: the username is left as it is.
new_pending_dict_same_user(current_dict, alt_username, password) ==
  [current_dict EXCEPT !.password = password]

\* current_dict with username and password replaced
new_pending_dict(current_dict, alt_username, password) ==
  [current_dict EXCEPT !.username = alt_username, !.password = password]

create_generate(i) ==
  /\ inv[i].pc = "c_gen"
  /\ LET alt_username == get_alt_username(inv[i].cur.username)
     IN IF alt_username = UsernameTooLong
        THEN Move(i, Finished(i, "UsernameTooLong"))
        ELSE \E password \in GenPasswords :
               Move(i,
                         [inv[i] EXCEPT !.pc = "c_put",
                                        !.pend = new_pending_dict(inv[i].cur,
                                                   alt_username, password)])
  /\ UNCHANGED <<storeVars, rds, dbVars>>

create_put(i) ==
  /\ inv[i].pc = "c_put"
  /\ IF PutAccepted(inv[i].token, inv[i].pend)
     THEN /\ payload' = put_secret_value_payload(inv[i].token, inv[i].pend)
          /\ stages' = put_secret_value_stages(inv[i].token, inv[i].pend, {"AWSPENDING"})
          /\ Move(i, Finished(i, "ok"))
     ELSE /\ Move(i, Finished(i, "ResourceExists"))
          /\ UNCHANGED <<stages, payload>>
  /\ UNCHANGED <<rotationEnabled, issued, masterSecret, masterTags, rds, dbVars>>

(* ------------------------------ set_secret ---------------------------- *)
set_get_current(i) ==
  /\ inv[i].pc = "s_cur"
  /\ LET current_dict == get_secret_dict("secret", "AWSCURRENT", NoToken, FALSE)
     IN Move(i,
                  IF IsErr(current_dict) THEN Finished(i, current_dict.err)
                  ELSE [inv[i] EXCEPT !.pc = "s_pend", !.cur = current_dict])
  /\ UNCHANGED <<storeVars, rds, dbVars>>

set_get_pending(i) ==
  /\ inv[i].pc = "s_pend"
  /\ LET pending_dict == get_secret_dict("secret", "AWSPENDING", inv[i].token, FALSE)
     IN Move(i,
                  IF IsErr(pending_dict) THEN Finished(i, pending_dict.err)
                  ELSE [inv[i] EXCEPT !.pc = "s_conn1", !.pend = pending_dict])
  /\ UNCHANGED <<storeVars, rds, dbVars>>

\* Mutant: the usernames are not compared.
StateCheck_no_username(current_dict, pending_dict) ==
  IF current_dict.host # pending_dict.host THEN "StateMismatch" ELSE "ok"

\* Mutant: the hosts are not compared.
StateCheck_no_host(current_dict, pending_dict) ==
  IF get_alt_username(current_dict.username) = UsernameTooLong THEN "UsernameTooLong"
  ELSE IF get_alt_username(current_dict.username) # pending_dict.username
       THEN "StateMismatch"
  ELSE "ok"

\* "ok", or the error of the user and host comparison
StateCheck(current_dict, pending_dict) ==
  IF get_alt_username(current_dict.username) = UsernameTooLong THEN "UsernameTooLong"
  ELSE IF get_alt_username(current_dict.username) # pending_dict.username
       THEN "StateMismatch"
  ELSE IF current_dict.host # pending_dict.host THEN "StateMismatch"
  ELSE "ok"

\* Mutant: the result of the connection with the current credential is not
\* looked at.
set_verify_current_unchecked(i) ==
  /\ inv[i].pc = "s_conn1"
  /\ LET check == StateCheck(inv[i].cur, inv[i].pend)
     IN Move(i,
                  IF check # "ok" THEN Finished(i, check)
                  ELSE Goto(i, "s_conn2"))
  /\ UNCHANGED <<storeVars, rds, dbVars>>

set_verify_current(i) ==
  /\ inv[i].pc = "s_conn1"
  /\ \E up1, up2 \in BOOLEAN :
       LET conn == get_connection(inv[i].cur, up1, up2)
           check == StateCheck(inv[i].cur, inv[i].pend)
       IN Move(i,
                    IF ~ conn THEN Finished(i, "ConnectionFailed")
                    ELSE IF check # "ok" THEN Finished(i, check)
                    ELSE Goto(i, "s_conn2"))
  /\ UNCHANGED <<storeVars, rds, dbVars>>

set_verify_current_again(i) ==
  /\ inv[i].pc = "s_conn2"
  /\ \E up1, up2 \in BOOLEAN :
       LET conn == get_connection(inv[i].cur, up1, up2)
       IN Move(i,
                    IF ~ conn THEN Finished(i, "ConnectionFailed")
                    ELSE Goto(i, "s_master"))
  /\ UNCHANGED <<storeVars, rds, dbVars>>

\* Mutant: the replica check is consulted whether or not the hosts are equal.
TopologyCheck_always_lookup(current_dict, master_dict) ==
  LET replica == is_rds_replica_database(current_dict, master_dict)
  IN IF IsErr(replica) THEN replica.err
     ELSE IF replica.ret THEN "ok" ELSE "TopologyMismatch"

\* "ok", "TopologyMismatch", or the error a control-plane lookup raises
TopologyCheck(current_dict, master_dict) ==
  IF current_dict.host = master_dict.host THEN "ok"
  ELSE LET replica == is_rds_replica_database(current_dict, master_dict)
       IN IF IsErr(replica) THEN replica.err
          ELSE IF replica.ret THEN "ok" ELSE "TopologyMismatch"

set_get_master(i) ==
  /\ inv[i].pc = "s_master"
  /\ LET current_dict == inv[i].cur
         fetched == IF "masterarn" \in DOMAIN current_dict
                    THEN get_secret_dict(current_dict.masterarn, "AWSCURRENT", NoToken, TRUE)
                    ELSE Err("MissingField")
         master_dict == Merge(fetched,
                          [dbname |-> IF "dbname" \in DOMAIN current_dict
                                      THEN current_dict.dbname ELSE "None"])
     IN Move(i,
                  IF IsErr(fetched) THEN Finished(i, fetched.err)
                  ELSE IF TopologyCheck(current_dict, master_dict) # "ok"
                       THEN Finished(i, TopologyCheck(current_dict, master_dict))
                  ELSE [inv[i] EXCEPT !.pc = "s_mconn", !.master = master_dict])
  /\ UNCHANGED <<storeVars, rds, dbVars>>

set_connect_master(i) ==
  /\ inv[i].pc = "s_mconn"
  /\ \E up1, up2 \in BOOLEAN :
       LET conn == get_connection(inv[i].master, up1, up2)
       IN Move(i,
                    IF ~ conn THEN Finished(i, "MasterConnectionFailed")
                    ELSE [inv[i] EXCEPT !.pc = "s_exists", !.conn = "master"])
  /\ UNCHANGED <<storeVars, rds, dbVars>>

\* SELECT 1 FROM pg_roles where rolname = pending username
RoleExists(username) == username \in DOMAIN roles /\ roles[username] # NoRole

\* Mutant: the pg_roles lookup is ignored and the role is always created.
set_check_role_always_create(i) ==
  /\ inv[i].pc = "s_exists"
  /\ Move(i, Goto(i, "s_create"))
  /\ UNCHANGED <<storeVars, rds, dbVars>>

set_check_role(i) ==
  /\ inv[i].pc = "s_exists"
  /\ Move(i,
               IF RoleExists(inv[i].pend.username) THEN Goto(i, "s_alter")
               ELSE Goto(i, "s_create"))
  /\ UNCHANGED <<storeVars, rds, dbVars>>

\* Mutant: the session is in autocommit mode, CREATE ROLE takes effect at
\* once and the GRANT follows in the next statement.
set_create_role_autocommit(i) ==
  /\ inv[i].pc = "s_create"
  /\ IF RoleExists(inv[i].pend.username) \/ ~ RoleExists(inv[i].cur.username)
     THEN /\ Move(i, Finished(i, "SqlError"))
          /\ UNCHANGED dbVars
     ELSE /\ roles' = [roles EXCEPT ![inv[i].pend.username] = inv[i].pend.password]
          /\ UNCHANGED grants
          /\ Move(i, [inv[i] EXCEPT !.pc = "s_commit", !.tx = "alter"])
  /\ UNCHANGED <<storeVars, rds>>

\* CREATE ROLE ... WITH LOGIN PASSWORD; GRANT current TO pending (uncommitted)
set_create_role(i) ==
  /\ inv[i].pc = "s_create"
  /\ Move(i,
               IF RoleExists(inv[i].pend.username) \/ ~ RoleExists(inv[i].cur.username)
               THEN Finished(i, "SqlError")
               ELSE [inv[i] EXCEPT !.pc = "s_commit", !.tx = "create"])
  /\ UNCHANGED <<storeVars, rds, dbVars>>

\* ALTER USER ... WITH PASSWORD (uncommitted)
set_alter_role(i) ==
  /\ inv[i].pc = "s_alter"
  /\ Move(i,
               IF ~ RoleExists(inv[i].pend.username) THEN Finished(i, "SqlError")
               ELSE [inv[i] EXCEPT !.pc = "s_commit", !.tx = "alter"])
  /\ UNCHANGED <<storeVars, rds, dbVars>>

\* Mutant: the role is given the password of the current version.
set_target_password_current(current_dict, pending_dict) == current_dict.password

\* The role whose password the master session writes, and the password.
set_target_role(current_dict, pending_dict) == pending_dict.username
set_target_password(current_dict, pending_dict) == pending_dict.password

\* Mutant: the GRANT statement is missing.
set_commit_no_grant(i) ==
  /\ inv[i].pc = "s_commit"
  /\ LET role == set_target_role(inv[i].cur, inv[i].pend)
         password == set_target_password(inv[i].cur, inv[i].pend)
     IN IF inv[i].tx = "create" /\ RoleExists(role)
        THEN /\ Move(i, Finished(i, "SqlError"))
             /\ UNCHANGED dbVars
        ELSE /\ roles' = [roles EXCEPT ![role] = password]
             /\ UNCHANGED grants
             /\ Move(i, Finished(i, "ok"))
  /\ UNCHANGED <<storeVars, rds>>

\* conn.commit(); conn.close()
set_commit(i) ==
  /\ inv[i].pc = "s_commit"
  /\ LET role == set_target_role(inv[i].cur, inv[i].pend)
         password == set_target_password(inv[i].cur, inv[i].pend)
     IN IF inv[i].tx = "create" /\ RoleExists(role)
        THEN /\ Move(i, Finished(i, "SqlError"))
             /\ UNCHANGED dbVars
        ELSE /\ roles' = [roles EXCEPT ![role] = password]
             /\ grants' = IF inv[i].tx = "create"
                          THEN grants \cup {<<inv[i].cur.username, role>>}
                          ELSE grants
             /\ Move(i, Finished(i, "ok"))
  /\ UNCHANGED <<storeVars, rds>>

(* ------------------------------ test_secret --------------------------- *)
test_get_pending(i) ==
  /\ inv[i].pc = "t_pend"
  /\ LET pending_dict == get_secret_dict("secret", "AWSPENDING", inv[i].token, FALSE)
     IN Move(i,
                  IF IsErr(pending_dict) THEN Finished(i, pending_dict.err)
                  ELSE [inv[i] EXCEPT !.pc = "t_conn", !.pend = pending_dict])
  /\ UNCHANGED <<storeVars, rds, dbVars>>

\* Mutant: the result of get_connection is not looked at.
test_connect_unchecked(i) ==
  /\ inv[i].pc = "t_conn"
  /\ Move(i, [inv[i] EXCEPT !.pc = "t_query", !.conn = "pending"])
  /\ UNCHANGED <<storeVars, rds, dbVars>>

test_connect(i) ==
  /\ inv[i].pc = "t_conn"
  /\ \E up1, up2 \in BOOLEAN :
       LET conn == get_connection(inv[i].pend, up1, up2)
       IN Move(i,
                    IF conn THEN [inv[i] EXCEPT !.pc = "t_query", !.conn = "pending"]
                    ELSE Finished(i, "CredentialNotUsable"))
  /\ UNCHANGED <<storeVars, rds, dbVars>>

\* SELECT NOW(); conn.commit(); conn.close()
test_query(i) ==
  /\ inv[i].pc = "t_query"
  /\ Move(i, Finished(i, "ok"))
  /\ UNCHANGED <<storeVars, rds, dbVars>>

(* ----------------------------- finish_secret -------------------------- *)
\* describe_secret and the loop over VersionIdsToStages: the loop stops at
\* the first version it meets that carries AWSCURRENT.
finish_describe(i) ==
  /\ inv[i].pc = "f_desc"
  /\ LET holders == {v \in DOMAIN VersionIdsToStages :
                       "AWSCURRENT" \in VersionIdsToStages[v]}
     IN IF holders = {}
        THEN Move(i, [inv[i] EXCEPT !.pc = "f_upd", !.obs = NoToken])
        ELSE \E version \in holders :
               Move(i,
                         IF version = inv[i].token THEN Finished(i, "ok")
                         ELSE [inv[i] EXCEPT !.pc = "f_upd", !.obs = version])
  /\ UNCHANGED <<storeVars, rds, dbVars>>

\* Mutant: the label is added to the token and taken from no version.
finish_move_add_only(token, current_version) ==
  [stages EXCEPT ![token] = @ \cup {"AWSCURRENT"}]

\* Mutant: MoveToVersionId and RemoveFromVersionId are exchanged.
finish_move_swapped(token, current_version) ==
  update_secret_version_stage("AWSCURRENT", current_version, token)

\* The label edit finish_secret asks the store for.
finish_move(token, current_version) ==
  update_secret_version_stage("AWSCURRENT", token, current_version)

finish_update(i) ==
  /\ inv[i].pc = "f_upd"
  /\ IF MoveAccepted("AWSCURRENT", inv[i].token, inv[i].obs)
     THEN /\ stages' = finish_move(inv[i].token, inv[i].obs)
          /\ Move(i, Finished(i, "ok"))
     ELSE /\ Move(i, Finished(i, "StoreRejected"))
          /\ UNCHANGED stages
  /\ UNCHANGED <<payload, rotationEnabled, issued, masterSecret, masterTags, rds, dbVars>>

(* Any call of an invocation may raise (an API or SQL error, the function's
   timeout): the invocation ends there, and a session it holds is closed
   without a commit. *)
\* Mutant: the session is not closed when a call raises.
Abort_no_finally(i) ==
  /\ inv[i].pc # "idle"
  /\ Move(i, [Finished(i, "Aborted") EXCEPT !.conn = inv[i].conn])
  /\ UNCHANGED <<storeVars, rds, dbVars>>

Abort(i) ==
  /\ inv[i].pc # "idle"
  /\ Move(i, Finished(i, "Aborted"))
  /\ UNCHANGED <<storeVars, rds, dbVars>>

Step(i) ==
  \/ create_get_current(i) \/ create_get_pending(i) \/ create_generate(i)
  \/ create_put(i)
  \/ set_get_current(i) \/ set_get_pending(i) \/ set_verify_current(i)
  \/ set_verify_current_again(i) \/ set_get_master(i) \/ set_connect_master(i)
  \/ set_check_role(i) \/ set_create_role(i) \/ set_alter_role(i) \/ set_commit(i)
  \/ test_get_pending(i) \/ test_connect(i) \/ test_query(i)
  \/ finish_describe(i) \/ finish_update(i)
  \/ Abort(i)

Invoke == \E i \in Procs : \E token \in Versions, step \in Steps :
            lambda_handler(i, token, step)

\* Concurrent invocations; the trigger is the only other writer of the store.
Next ==
  \/ StartRotation({NoValue}, MaxRotations)
  \/ Invoke
  \/ \E i \in Procs : Step(i)

Spec == Init /\ [][Next]_vars

\* One invocation at a time; versions may arrive with a value, and rotation
\* may be cancelled.
SerialNext ==
  \/ StartRotation({NoValue} \cup ForeignPayloads, MaxSerialRotations)
  \/ CancelRotation
  \/ Invoke
  \/ \E i \in Procs : Step(i)

SerialSpec == SerialInit /\ [][SerialNext]_vars

(* ------------------------- replica topologies ------------------------ *)
\* Number of version tokens the trigger issues in a run over the topologies.
MaxTopoRotations == 1

AuroraClusterMaster ==
  [MasterDict EXCEPT !.engine = "aurora-postgresql", !.host = ClusterHost]
AuroraInstanceMaster == [MasterDict EXCEPT !.engine = "aurora-postgresql"]

\* DescribeDBInstances / DescribeDBClusters answers: id -> list of records
Described(id, answer) == id :> answer

ClusterOf(reader, member, writer) ==
  [ReaderEndpoint |-> reader,
   DBClusterMembers |-> <<[DBInstanceIdentifier |-> member, IsClusterWriter |-> writer]>>]

\* A cluster of two members: the writer and one reader.
ClusterOfTwo(reader, writer_id, reader_id) ==
  [ReaderEndpoint |-> reader,
   DBClusterMembers |-> <<[DBInstanceIdentifier |-> writer_id, IsClusterWriter |-> TRUE],
                          [DBInstanceIdentifier |-> reader_id, IsClusterWriter |-> FALSE]>>]

\* The secret's host, the master secret, and what the control plane answers.
Topologies ==
  {[host |-> PrimaryHost, master |-> MasterDict, rds |-> NoRds],
   [host |-> ClusterHost, master |-> AuroraClusterMaster, rds |-> NoRds],
   [host |-> ReplicaHost, master |-> MasterDict,
    rds |-> [instances |-> Described(S_rep,
                             <<[ReadReplicaSourceDBInstanceIdentifier |-> S_db1]>>),
             clusters |-> <<>>]],
   [host |-> ReplicaHost, master |-> MasterDict,
    rds |-> [instances |-> Described(S_rep,
                             <<[ReadReplicaSourceDBInstanceIdentifier |-> S_db2]>>),
             clusters |-> <<>>]],
   [host |-> ReplicaHost, master |-> MasterDict,
    rds |-> [instances |-> Described(S_rep, <<[Engine |-> "postgres"]>>),
             clusters |-> <<>>]],
   [host |-> ReplicaHost, master |-> MasterDict,
    rds |-> [instances |-> Described(S_rep, <<>>), clusters |-> <<>>]],
   [host |-> ReplicaHost, master |-> MasterDict, rds |-> NoRds],
   [host |-> ReaderHost, master |-> AuroraClusterMaster,
    rds |-> [instances |-> <<>>,
             clusters |-> Described(S_db1, <<ClusterOf(ReaderHost, S_db1, TRUE)>>)]],
   [host |-> ReplicaHost, master |-> AuroraClusterMaster,
    rds |-> [instances |-> <<>>,
             clusters |-> Described(S_db1, <<ClusterOf(ReaderHost, S_rep, FALSE)>>)]],
   [host |-> ReplicaHost, master |-> AuroraClusterMaster,
    rds |-> [instances |-> <<>>,
             clusters |-> Described(S_db1, <<ClusterOf(ReaderHost, S_rep, TRUE)>>)]],
   [host |-> ReplicaHost, master |-> AuroraClusterMaster,
    rds |-> [instances |-> <<>>, clusters |-> Described(S_db1, <<>>)]],
   [host |-> ReplicaHost, master |-> AuroraInstanceMaster,
    rds |-> [instances |-> Described(S_db1, <<[DBClusterIdentifier |-> S_db1]>>),
             clusters |-> Described(S_db1, <<ClusterOf(ReaderHost, S_rep, FALSE)>>)]],
   [host |-> ReplicaHost, master |-> AuroraInstanceMaster,
    rds |-> [instances |-> Described(S_db1, <<[Engine |-> "aurora-postgresql"]>>),
             clusters |-> <<>>]],
   [host |-> ReplicaHost, master |-> AuroraInstanceMaster,
    rds |-> [instances |-> Described(S_db1, <<>>), clusters |-> <<>>]],
   [host |-> ReplicaHost, master |-> AuroraClusterMaster,
    rds |-> [instances |-> <<>>,
             clusters |-> Described(S_db1, <<ClusterOfTwo(ReaderHost, S_db1, S_rep)>>)]],
   [host |-> ReplicaHost, master |-> AuroraClusterMaster,
    rds |-> [instances |-> <<>>,
             clusters |-> Described(S_db1, <<ClusterOfTwo(ReaderHost, S_db1, S_db2)>>)]],
   [host |-> ReaderHost, master |-> AuroraInstanceMaster,
    rds |-> [instances |-> Described(S_db1, <<[DBClusterIdentifier |-> S_db2]>>),
             clusters |-> Described(S_db2, <<ClusterOfTwo(ReaderHost, S_db1, S_rep)>>)]],
   [host |-> ReplicaHost, master |-> AuroraInstanceMaster,
    rds |-> [instances |-> Described(S_db1, <<[DBClusterIdentifier |-> S_db2]>>),
             clusters |-> Described(S_db2, <<ClusterOfTwo(ReaderHost, S_rep, S_db1)>>)]],
   [host |-> ReplicaHost, master |-> AuroraInstanceMaster,
    rds |-> [instances |-> Described(S_db1, <<[DBClusterIdentifier |-> S_db2]>>),
             clusters |-> Described(S_db2, <<ClusterOfTwo(ReaderHost, S_db1, S_rep)>>)]],
   [host |-> ReplicaHost, master |-> AuroraClusterMaster,
    rds |-> [instances |-> <<>>,
             clusters |-> Described(S_db1, <<[Engine |-> "aurora-postgresql"]>>)]]}

\* The secret of Start on one of the topologies, its invocations run one at
\* a time.
TopoInit ==
  \E topo \in Topologies :
    /\ stages = [v \in Versions |-> IF v = 0 THEN {"AWSCURRENT"} ELSE {}]
    /\ payload = [v \in Versions |->
                    IF v = 0
                    THEN [InitialSecret EXCEPT !.host = topo.host,
                                               !.engine = topo.master.engine]
                    ELSE NoValue]
    /\ rotationEnabled = "absent"
    /\ issued = 0
    /\ masterSecret = topo.master
    /\ masterTags = [Name |-> "master"]
    /\ rds = topo.rds
    /\ roles = [u \in Usernames |->
                  IF u = S_app THEN InitPassword
                  ELSE IF u = S_admin THEN MasterPassword ELSE NoRole]
    /\ grants = {}
    /\ inv = [i \in Procs |-> Idle]
    /\ serial = TRUE
    /\ last = NoLast
    /\ tested = {}
    /\ call = NoCall

TopoNext ==
  \/ StartRotation({NoValue}, MaxTopoRotations)
  \/ Invoke
  \/ \E i \in Procs : Step(i)

TopoSpec == TopoInit /\ [][TopoNext]_vars

(* --------------------------- a driven rotation ------------------------ *)
\* Number of rotations the caller drives to their end.
MaxLiveRotations == 2

\* The caller (the rotation service) invokes createSecret, setSecret,
\* testSecret, finishSecret in this order for the newest token, and invokes
\* a step again when it has failed.
StepAfter(step) ==
  CASE step = "createSecret" -> "setSecret"
    [] step = "setSecret" -> "testSecret"
    [] step = "testSecret" -> "finishSecret"
    [] OTHER -> "none"

NextStep ==
  IF issued = 0 THEN "none"
  ELSE IF last.token # issued THEN "createSecret"
  ELSE IF last.result = "ok" THEN StepAfter(last.step)
  ELSE last.step

Drive ==
  /\ NextStep # "none"
  /\ lambda_handler(SerialSlot, issued, NextStep)

\* A call fails although it could go through: it breaks off, or a
\* connection with a credential the database accepts is not opened.
TransientFailure ==
  \E i \in Procs :
    /\ inv[i].pc # "idle"
    /\ inv'[i].pc = "idle"
    /\ \/ last'.result = "Aborted"
       \/ /\ last'.result = "ConnectionFailed"
          /\ connect_and_authenticate(inv[i].cur, TRUE, TRUE)
       \/ /\ last'.result = "MasterConnectionFailed"
          /\ connect_and_authenticate(inv[i].master, TRUE, TRUE)
       \/ /\ last'.result = "CredentialNotUsable"
          /\ connect_and_authenticate(inv[i].pend, TRUE, TRUE)

LiveNext ==
  \/ StartRotation({NoValue}, MaxLiveRotations)
  \/ Drive
  \/ \E i \in Procs : Step(i)

\* The caller keeps invoking, an invocation keeps running, and from some
\* time on no call fails that could go through (the database and the master
\* are reachable).
LiveSpec ==
  /\ SerialInit
  /\ [][LiveNext]_vars
  /\ WF_vars(Drive)
  /\ WF_vars(\E i \in Procs : Step(i))
  /\ <>[][~ TransientFailure]_vars

(* ----------------------- get_alt_username on its own ------------------ *)
\* Longest stem of the names given to get_alt_username.
MaxNameLen == 64

Pad(k) == [j \in 1 .. k |-> "a"]

\* Names of every length around the limit: plain, ending with the marker
\* once or twice, ending with the marker's letters only, starting with it.
NameInputs ==
  UNION {{Pad(k), Pad(k) \o clone_suffix, Pad(k) \o clone_suffix \o clone_suffix,
          Pad(k) \o Tail(clone_suffix), clone_suffix \o Pad(k)} :
         k \in 0 .. MaxNameLen}

AltInit ==
  /\ Start
  /\ serial = TRUE
  /\ \E name \in NameInputs :
       call = [op |-> "get_alt_username", arg |-> name, rets |-> <<>>]

\* get_alt_username is applied to the name, then to what it returned.
alt_username_call ==
  /\ call.op = "get_alt_username"
  /\ Len(call.rets) < 2
  /\ LET current_username == IF call.rets = <<>> THEN call.arg
                             ELSE call.rets[Len(call.rets)]
     IN /\ current_username # UsernameTooLong
        /\ call' = [call EXCEPT !.rets = Append(@, get_alt_username(current_username))]
  /\ UNCHANGED <<storeVars, rds, dbVars, inv, serial, last, tested>>

AltNext == alt_username_call

AltSpec == AltInit /\ [][AltNext]_vars

(* ------------------------ get_secret_dict on its own ----------------- *)
\* ARNs are character sequences; only their length and identity matter.
ArnOfLength(n) == [j \in 1 .. n |-> "a"]

ShortArn == ArnOfLength(Len(S_db1))
LongestArn == ArnOfLength(MAX_RDS_DB_INSTANCE_ARN_LENGTH)
TooLongArn == ArnOfLength(MAX_RDS_DB_INSTANCE_ARN_LENGTH + 1)

\* Master secret values: made by RDS (two keys), two keys and one more, and
\* complete.
MasterPayloads ==
  {[username |-> S_admin, password |-> MasterPassword],
   [username |-> S_admin, password |-> MasterPassword, dbname |-> "postgres"],
   MasterDict}

Tag(key, value) == [Key |-> key, Value |-> value]

\* Metadata of the master secret: no tags, tags without the linkage, the
\* linkage to an instance or to a cluster, in the case RDS writes it or in
\* lower case, of a short, the longest and a too long ARN.
TagSets ==
  {[Name |-> "master"],
   [Name |-> "master", Tags |-> <<>>],
   [Name |-> "master", Tags |-> <<Tag("owner", ShortArn)>>]}
    \cup {[Name |-> "master", Tags |-> <<Tag("owner", ShortArn), Tag(key, arn)>>] :
            key \in {"aws:rds:primaryDBInstanceArn", "aws:rds:primarydbinstancearn",
                     "aws:rds:primaryDBClusterArn"},
            arn \in {ShortArn, LongestArn, TooLongArn}}

InstanceRecord(engine) ==
  [Endpoint |-> [Address |-> PrimaryHost, Port |-> "5432"], Engine |-> engine]
ClusterRecord(engine) ==
  [Endpoint |-> ClusterHost, Port |-> "5432", Engine |-> engine]

\* What the control plane answers for each ARN.
ArnWorlds ==
  {NoRds}
    \cup {[instances |-> [arn \in {ShortArn, LongestArn, TooLongArn} |->
                           <<InstanceRecord(engine)>>],
           clusters |-> [arn \in {ShortArn, LongestArn, TooLongArn} |->
                          <<ClusterRecord(engine)>>]] :
           engine \in {"postgres", "mysql"}}

FetchInit ==
  /\ stages = [v \in Versions |-> IF v = 0 THEN {"AWSCURRENT"} ELSE {}]
  /\ payload = [v \in Versions |-> IF v = 0 THEN InitialSecret ELSE NoValue]
  /\ rotationEnabled = "absent"
  /\ issued = 0
  /\ masterSecret \in MasterPayloads
  /\ masterTags \in TagSets
  /\ rds \in ArnWorlds
  /\ roles = [u \in Usernames |->
                IF u = S_app THEN InitPassword
                ELSE IF u = S_admin THEN MasterPassword ELSE NoRole]
  /\ grants = {}
  /\ inv = [i \in Procs |-> Idle]
  /\ serial = TRUE
  /\ last = NoLast
  /\ tested = {}
  /\ \E master_secret \in BOOLEAN :
       call = [op |-> "get_secret_dict", master_secret |-> master_secret,
               pc |-> "get_secret_value", secret_dict |-> NoValue,
               db_instance_info |-> NoValue, described |-> <<>>, ret |-> NoValue]

Quiet == UNCHANGED <<storeVars, rds, dbVars, inv, serial, last, tested>>

\* secret = get_secret_value(...); json.loads; the test of the key set
fetch_get_secret_value ==
  /\ call.op = "get_secret_dict"
  /\ call.pc = "get_secret_value"
  /\ LET secret == get_secret_value("master", "AWSCURRENT", NoToken)
     IN call' = IF IsErr(secret)
                THEN [call EXCEPT !.pc = "done", !.ret = secret]
                ELSE [call EXCEPT
                        !.secret_dict = secret,
                        !.pc = IF call.master_secret
                                  /\ DOMAIN secret = {"username", "password"}
                               THEN "system_tags" ELSE "required_fields"]
  /\ Quiet

\* db_instance_info = fetch_instance_arn_from_system_tags(service_client, arn)
fetch_system_tags ==
  /\ call.op = "get_secret_dict"
  /\ call.pc = "system_tags"
  /\ LET db_instance_info == fetch_instance_arn_from_system_tags(masterTags)
     IN call' = IF IsErr(db_instance_info)
                THEN [call EXCEPT !.pc = "done", !.ret = db_instance_info]
                ELSE [call EXCEPT
                        !.db_instance_info = db_instance_info,
                        !.pc = IF db_instance_info = EmptyInfo
                               THEN "required_fields" ELSE "rds_api"]
  /\ Quiet

\* secret_dict = get_connection_params_from_rds_api(secret_dict, db_instance_info)
fetch_rds_api ==
  /\ call.op = "get_secret_dict"
  /\ call.pc = "rds_api"
  /\ LET secret_dict == get_connection_params_from_rds_api(call.secret_dict,
                                                          call.db_instance_info)
         described == Append(call.described, call.db_instance_info.ARN)
     IN call' = IF IsErr(secret_dict)
                THEN [call EXCEPT !.pc = "done", !.ret = secret_dict,
                                  !.described = described]
                ELSE [call EXCEPT !.pc = "required_fields",
                                  !.secret_dict = secret_dict,
                                  !.described = described]
  /\ Quiet

\* the required fields, the supported engines, return secret_dict
fetch_required_fields ==
  /\ call.op = "get_secret_dict"
  /\ call.pc = "required_fields"
  /\ call' = [call EXCEPT
                !.pc = "done",
                !.ret = IF ~ (required_fields \subseteq DOMAIN call.secret_dict)
                        THEN Err("MissingField")
                        ELSE IF call.secret_dict.engine \notin supported_engines
                        THEN Err("UnsupportedEngine")
                        ELSE call.secret_dict]
  /\ Quiet

FetchNext ==
  \/ fetch_get_secret_value
  \/ fetch_system_tags
  \/ fetch_rds_api
  \/ fetch_required_fields

FetchSpec == FetchInit /\ [][FetchNext]_vars

(* ------------------------ get_connection on its own ------------------ *)
S_true == <<"t", "r", "u", "e">>
S_false == <<"f", "a", "l", "s", "e">>

upper(c) ==
  CASE c = "t" -> "T" [] c = "r" -> "R" [] c = "u" -> "U" [] c = "e" -> "E"
    [] c = "f" -> "F" [] c = "a" -> "A" [] c = "l" -> "L" [] c = "s" -> "S"
    [] OTHER -> c

\* The word in every mix of upper and lower case.
Cased(word) ==
  {[k \in 1 .. Len(word) |-> IF k \in U THEN upper(word[k]) ELSE word[k]] :
     U \in SUBSET (1 .. Len(word))}

\* Strings that are neither word.
OtherStrings ==
  {<<>>, <<"b", "o", "g", "u", "s">>, <<"t", "r", "u">>, <<"T", "R", "U", "E", " ">>,
   <<"f", "a", "l", "s", "e", "e">>, <<"y", "e", "s">>, <<"1">>, <<"0">>}

\* The values of the secret's ssl key; NoValue stands for a secret without it.
SslValues ==
  {NoValue, [type |-> "other"]}
    \cup {[type |-> "bool", b |-> b] : b \in BOOLEAN}
    \cup {[type |-> "str", s |-> s] :
            s \in Cased(S_true) \cup Cased(S_false) \cup OtherStrings}

WithSsl(secret_dict, ssl) ==
  IF ssl = NoValue THEN secret_dict
  ELSE [k \in DOMAIN secret_dict \cup {"ssl"} |->
          IF k = "ssl" THEN ssl ELSE secret_dict[k]]

\* The secret with a password the database accepts or not, an ssl value,
\* and whether the first and the second attempt can get through.
ConnInit ==
  /\ Start
  /\ serial = TRUE
  /\ \E ssl \in SslValues, password \in {InitPassword, NoRole}, up1, up2 \in BOOLEAN :
       call = [op |-> "get_connection",
               secret_dict |-> WithSsl([InitialSecret EXCEPT !.password = password], ssl),
               up1 |-> up1, up2 |-> up2,
               pc |-> "ssl_config", cfg |-> <<>>, attempts |-> <<>>, ret |-> FALSE]

\* use_ssl, fall_back = get_ssl_config(secret_dict)
conn_ssl_config ==
  /\ call.op = "get_connection"
  /\ call.pc = "ssl_config"
  /\ call' = [call EXCEPT !.cfg = get_ssl_config(call.secret_dict), !.pc = "first"]
  /\ UNCHANGED <<storeVars, rds, dbVars, inv, serial, last, tested>>

\* Mutant: a failed first attempt is always followed by the second one.
conn_first_attempt_always_retry ==
  /\ call.op = "get_connection"
  /\ call.pc = "first"
  /\ LET use_ssl == call.cfg[1]
         conn == connect_and_authenticate(call.secret_dict, use_ssl, call.up1)
     IN call' = [call EXCEPT !.attempts = Append(@, [use_ssl |-> use_ssl, conn |-> conn]),
                             !.pc = IF conn THEN "done" ELSE "fallback",
                             !.ret = conn]
  /\ UNCHANGED <<storeVars, rds, dbVars, inv, serial, last, tested>>

\* conn = connect_and_authenticate(..., use_ssl); if conn or not fall_back: return conn
conn_first_attempt ==
  /\ call.op = "get_connection"
  /\ call.pc = "first"
  /\ LET use_ssl == call.cfg[1]
         fall_back == call.cfg[2]
         conn == connect_and_authenticate(call.secret_dict, use_ssl, call.up1)
     IN call' = [call EXCEPT !.attempts = Append(@, [use_ssl |-> use_ssl, conn |-> conn]),
                             !.pc = IF conn \/ ~ fall_back THEN "done" ELSE "fallback",
                             !.ret = conn]
  /\ UNCHANGED <<storeVars, rds, dbVars, inv, serial, last, tested>>

\* return connect_and_authenticate(..., False)
conn_fallback_attempt ==
  /\ call.op = "get_connection"
  /\ call.pc = "fallback"
  /\ LET conn == connect_and_authenticate(call.secret_dict, FALSE, call.up2)
     IN call' = [call EXCEPT !.attempts = Append(@, [use_ssl |-> FALSE, conn |-> conn]),
                             !.pc = "done",
                             !.ret = conn]
  /\ UNCHANGED <<storeVars, rds, dbVars, inv, serial, last, tested>>

ConnNext == conn_ssl_config \/ conn_first_attempt \/ conn_fallback_attempt

ConnSpec == ConnInit /\ [][ConnNext]_vars

(* ------------------------------ properties ---------------------------- *)
CurrentVersions == {v \in Versions : "AWSCURRENT" \in stages[v]}
PendingVersions == {v \in Versions : "AWSPENDING" \in stages[v]}

\* The database accepts the credential of a SecretString.
Authenticates(dict) ==
  dict # NoValue /\ connect_and_authenticate(dict, TRUE, TRUE)

CurrentAuthenticates == \A v \in CurrentVersions : Authenticates(payload[v])

(* C1: in every reachable state, whatever the interleaving of invocations
   (two finishSecret racing included), exactly one version holds AWSCURRENT. *)
C1_ExactlyOneCurrent == Cardinality(CurrentVersions) = 1

\* A finishSecret that read the stage map before another one moved the
\* label, and has yet to ask for its own move.
C1_Witness ==
  \E i \in Procs : /\ inv[i].pc = "f_upd"
                   /\ inv[i].obs # NoToken
                   /\ "AWSCURRENT" \notin stages[inv[i].obs]
                   /\ Cardinality(CurrentVersions) = 1

(* Reading a serial run.  With every slot idle, a step that starts an
   invocation or flips last.seq is lambda_handler taking an event; with a
   slot busy, its going idle is the invocation ending, as last' records. *)
AllIdle == \A j \in Procs : inv[j].pc = "idle"

Arrives(token, step) ==
  /\ AllIdle
  /\ \/ \E i \in Procs : /\ inv'[i].pc # "idle"
                         /\ inv'[i].token = token
                         /\ inv'[i].step = step
     \/ /\ last'.seq # last.seq
        /\ last'.token = token
        /\ last'.step = step

\* lambda_handler returns or raises before it calls a step function.
ReturnsAtOnce(result) ==
  /\ AllIdle'
  /\ last'.seq # last.seq
  /\ last'.result = result

\* Invocation i ends in this step, and not because a call of it broke off.
Completes(i) ==
  /\ inv[i].pc # "idle"
  /\ inv'[i].pc = "idle"
  /\ last'.result # "Aborted"

PreviousVersions == {v \in Versions : "AWSPREVIOUS" \in stages[v]}

(* C2: an invocation of finishSecret for a token that holds AWSCURRENT
   changes nothing in the store.  An invocation of finishSecret for a token
   that holds AWSPENDING and not AWSCURRENT, run to its end, returns with the
   token's version holding AWSCURRENT, the version that held AWSCURRENT
   before holding AWSPREVIOUS and no longer AWSCURRENT, and no other version
   holding AWSCURRENT. *)
C2_FinishMovesCurrent ==
  [][\A t \in Versions :
       /\ (Arrives(t, "finishSecret") /\ t \in CurrentVersions)
            => AllIdle' /\ UNCHANGED <<storeVars, dbVars>>
       /\ \A i \in Procs :
            (inv[i].pc # "idle" /\ inv[i].step = "finishSecret" /\ inv[i].token = t)
            => /\ t \notin CurrentVersions
               /\ "AWSPENDING" \in stages[t]
               /\ Completes(i)
                    => /\ inv[i].pc = "f_upd"
                       /\ last'.result = "ok"
                       /\ \E old \in Versions \ {t} :
                            /\ CurrentVersions = {old}
                            /\ CurrentVersions' = {t}
                            /\ PreviousVersions' = {old}
                       /\ UNCHANGED <<payload, dbVars>>]_vars

\* The second rotation has been finished: AWSCURRENT has moved twice, and
\* AWSPREVIOUS has followed it.
C2_Witness ==
  /\ last.step = "finishSecret"
  /\ last.result = "ok"
  /\ last.token > 1
  /\ CurrentVersions = {last.token}
  /\ PreviousVersions = {last.token - 1}

(* C3 as stated: whenever the requested token's stages include AWSCURRENT,
   lambda_handler returns success for any step value, calls no step
   function and changes no version, stage label or database role. *)
C3_CurrentAlwaysReturns ==
  [][\A t \in Versions, s \in Steps :
       (Arrives(t, s) /\ t \in CurrentVersions)
       => ReturnsAtOnce("ok") /\ UNCHANGED <<storeVars, dbVars>>]_vars

(* C3, amended: the same, for a secret whose metadata does not mark rotation
   disabled; with rotation disabled the invocation is rejected first. *)
C3_EligibleCurrentReturns ==
  [][\A t \in Versions, s \in Steps :
       (Arrives(t, s) /\ t \in CurrentVersions /\ rotationEnabled # "false")
       => ReturnsAtOnce("ok") /\ UNCHANGED <<storeVars, dbVars>>]_vars

\* An unrecognised step for the AWSCURRENT token has returned success.
C3_Witness ==
  /\ last.step \notin StepNames
  /\ last.token \in CurrentVersions
  /\ last.result = "ok"
  /\ rotationEnabled # "false"

(* C4: lambda_handler rejects an invocation without calling a step function
   and without changing the store or the database: NotEligible when the
   metadata marks rotation disabled, whatever else is wrong (an absent flag
   does not count as disabled); else UnknownVersion when the token is not in
   the stage map; else InvalidStage when the token holds neither AWSCURRENT
   nor AWSPENDING; else InvalidStep when the token holds AWSPENDING and not
   AWSCURRENT and the step is none of the four names. *)
C4_RejectionPrecedence ==
  [][\A t \in Versions, s \in Steps :
       Arrives(t, s) =>
         LET disabled == rotationEnabled = "false"
             unknown == stages[t] = {}
             unstaged == stages[t] \cap {"AWSCURRENT", "AWSPENDING"} = {}
             pendingOnly == "AWSPENDING" \in stages[t] /\ "AWSCURRENT" \notin stages[t]
             rejected == ReturnsAtOnce(last'.result) /\ UNCHANGED <<storeVars, dbVars>>
         IN /\ disabled => rejected /\ last'.result = "NotEligible"
            /\ (~ disabled /\ unknown) => rejected /\ last'.result = "UnknownVersion"
            /\ (~ disabled /\ ~ unknown /\ unstaged)
                 => rejected /\ last'.result = "InvalidStage"
            /\ (~ disabled /\ pendingOnly /\ s \notin StepNames)
                 => rejected /\ last'.result = "InvalidStep"
            /\ (~ disabled /\ pendingOnly /\ s \in StepNames) => ~ AllIdle']_vars

\* Rotation disabled, the token unknown, the step unrecognised: NotEligible.
C4_Witness ==
  /\ last.result = "NotEligible"
  /\ last.step \notin StepNames
  /\ stages[last.token] = {}
  /\ rotationEnabled = "false"

(* C5 as stated: the credential of the AWSCURRENT version authenticates at
   first, and in every state reached through any sequence of createSecret,
   setSecret, testSecret and finishSecret invocations the credential of the
   version that holds AWSCURRENT authenticates. *)
C5_CurrentAlwaysAuthenticates == CurrentAuthenticates

(* C5, amended: no step of a sequence of invocations takes a working
   credential away from AWSCURRENT, provided finishSecret moves AWSCURRENT
   only to a token whose testSecret has succeeded; and a step that writes a
   role's password writes the role alternate(AWSCURRENT username), never the
   role the AWSCURRENT version names. *)
C5_TestedCurrentAuthenticates ==
  [][/\ (CurrentAuthenticates /\ (CurrentVersions' \ CurrentVersions) \subseteq tested)
          => CurrentAuthenticates'
     /\ \A u \in Usernames, v \in CurrentVersions :
          (roles'[u] # roles[u] /\ payload[v] # NoValue)
          => u = get_alt_username(payload[v].username)]_vars

\* A tested version has been promoted after setSecret installed its
\* password, and the database accepts it.
C5_Witness ==
  /\ last.step = "finishSecret"
  /\ last.result = "ok"
  /\ last.token \in (CurrentVersions \cap tested) \ {0}
  /\ Authenticates(payload[last.token])

(* C6 as stated: a version never becomes AWSCURRENT unless testSecret has
   succeeded before for the same token. *)
C6_OnlyTestedBecomesCurrent ==
  [][(CurrentVersions' \ CurrentVersions) \subseteq tested]_vars

(* C6, amended: a version becomes AWSCURRENT only in the store call of a
   finishSecret invocation for its token, which lambda_handler dispatched
   because the token holds AWSPENDING; whether createSecret, setSecret or
   testSecret ran before is not looked at. *)
C6_OnlyFinishOfPendingPromotes ==
  [][\A t \in CurrentVersions' \ CurrentVersions :
       /\ "AWSPENDING" \in stages[t]
       /\ \E i \in Procs : /\ inv[i].pc = "f_upd"
                           /\ inv[i].step = "finishSecret"
                           /\ inv[i].token = t
                           /\ Completes(i)]_vars

\* finishSecret has promoted a version no testSecret succeeded for.
C6_Witness ==
  /\ last.step = "finishSecret"
  /\ last.result = "ok"
  /\ last.token \in CurrentVersions \ tested
  /\ "AWSCURRENT" \notin stages[0]

(* C7: under any interleaving of invocations that share no lock, a payload
   once stored under a token stays as its first writer stored it, and a
   setSecret that overlaps a finishSecret never takes from the version that
   holds AWSCURRENT a credential the database accepted: where it writes the
   password of the role that version names, it writes that version's own. *)
C7_OverlapKeepsCurrentCredential ==
  [][/\ \A t \in Versions : payload[t] # NoValue => payload'[t] = payload[t]
     /\ (roles' # roles /\ CurrentAuthenticates) => CurrentAuthenticates']_vars

(* C8: createSecret is idempotent per token.  Invoked for a token that has a
   payload, it generates no password and writes nothing; a stored payload
   never changes, so createSecret twice leaves what createSecret once left. *)
C8_CreateIdempotent ==
  [][/\ \A t \in Versions : payload[t] # NoValue => payload'[t] = payload[t]
     /\ \A i \in Procs :
          (inv[i].step = "createSecret" /\ inv[i].pc # "idle"
             /\ payload[inv[i].token] # NoValue /\ "AWSPENDING" \in stages[inv[i].token])
          => /\ inv'[i].pc \notin {"c_gen", "c_put"}
             /\ UNCHANGED <<stages, payload, dbVars>>
             /\ (inv[i].pc = "c_pend" /\ Completes(i)) => last'.result = "ok"]_vars

\* createSecret has been invoked again for a token it wrote a payload for,
\* and is about to read it.
C8_Witness ==
  \E i \in Procs : /\ inv[i].pc = "c_pend"
                   /\ payload[inv[i].token] # NoValue
                   /\ last.step = "createSecret"
                   /\ last.token = inv[i].token
                   /\ last.result = "ok"

(* C9: with no payload under the token, a createSecret that succeeds stores
   under the token, staged AWSPENDING only, the AWSCURRENT payload with the
   username replaced by alternate(username) and the password by a generated
   one, every other field as it is; the AWSCURRENT version keeps its payload
   and its labels. *)
C9_CreateStoresAlternate ==
  [][\A i \in Procs :
       (inv[i].step = "createSecret" /\ Completes(i) /\ payload[inv[i].token] = NoValue
          /\ last'.result = "ok")
       => \E c \in Versions :
            LET t == inv[i].token
                kept == DOMAIN payload[c] \ {"username", "password"}
            IN /\ CurrentVersions = {c}
               /\ payload[c] # NoValue
               /\ payload'[t] # NoValue
               /\ DOMAIN payload'[t] = DOMAIN payload[c]
               /\ \A k \in kept : payload'[t][k] = payload[c][k]
               /\ payload'[t].username = get_alt_username(payload[c].username)
               /\ payload'[t].username # payload[c].username
               /\ payload'[t].password \in GenPasswords
               /\ stages'[t] = {"AWSPENDING"}
               /\ payload'[c] = payload[c]
               /\ stages'[c] = stages[c]]_vars

\* createSecret has stored app_clone's credential while app's is AWSCURRENT.
C9_Witness ==
  /\ last.step = "createSecret"
  /\ last.result = "ok"
  /\ stages[last.token] = {"AWSPENDING"}
  /\ payload[last.token] # NoValue
  /\ payload[last.token].username = S_app \o clone_suffix
  /\ payload[last.token].password \in GenPasswords
  /\ \E c \in CurrentVersions : payload[c] # NoValue /\ payload[c].username = S_app

\* What setSecret compares between the two versions it has read.
Mismatch(current_dict, pending_dict) ==
  \/ get_alt_username(current_dict.username) # pending_dict.username
  \/ current_dict.host # pending_dict.host

SetHasRead(i) ==
  inv[i].step = "setSecret" /\ inv[i].pc \notin {"idle", "s_cur", "s_pend"}

(* C10 as stated: whenever the pending username differs from
   alternate(current username) or the pending host from the current host,
   setSecret fails with StateMismatch. *)
C10_MismatchAlwaysStateMismatch ==
  [][\A i \in Procs :
       (SetHasRead(i) /\ Mismatch(inv[i].cur, inv[i].pend) /\ Completes(i))
       => last'.result = "StateMismatch"]_vars

(* C10, amended: on such a mismatch setSecret fails before it opens a master
   session and changes no role and no password.  The failure is StateMismatch
   if the connection with the AWSCURRENT credential succeeds; that
   connection is tried first, and its failure is reported as
   ConnectionFailed. *)
C10_MismatchStopsSet ==
  [][\A i \in Procs :
       (SetHasRead(i) /\ Mismatch(inv[i].cur, inv[i].pend))
       => /\ inv[i].pc = "s_conn1"
          /\ UNCHANGED dbVars
          /\ inv'[i] # inv[i] => inv'[i].pc = "idle"
          /\ Completes(i)
               => /\ last'.result \in {"StateMismatch", "ConnectionFailed"}
                  /\ ~ Authenticates(inv[i].cur) => last'.result = "ConnectionFailed"]_vars

\* setSecret has refused a pending version of another host or user.
C10_Witness ==
  /\ last.step = "setSecret"
  /\ last.result = "StateMismatch"
  /\ payload[last.token] # NoValue
  /\ \E c \in CurrentVersions : Mismatch(payload[c], payload[last.token])

\* setSecret is at the topology validation with these two dictionaries.
AtTopology(i) == inv[i].step = "setSecret" /\ inv[i].pc = "s_master"

(* C11: setSecret fails with TopologyMismatch exactly when the current
   host differs from the master's host and the replica check returns false,
   and then before it connects as master and with no role changed; with
   equal hosts the replica check is not consulted and setSecret goes on to
   the master connection, as it does when the check returns true. *)
C11_TopologyMismatchExactly ==
  [][\A i \in Procs :
       /\ (Completes(i) /\ last'.result = "TopologyMismatch") => AtTopology(i)
       /\ (AtTopology(i) /\ inv'[i] # inv[i]) =>
            LET sameHost == inv[i].cur.host = masterSecret.host
                replica == is_rds_replica_database(inv[i].cur, masterSecret)
                aborted == inv'[i].pc = "idle" /\ last'.result = "Aborted"
                fails == Completes(i) /\ last'.result = "TopologyMismatch"
            IN /\ UNCHANGED dbVars
               /\ fails <=> (~ aborted /\ ~ sameHost /\ replica = [ret |-> FALSE])
               /\ (sameHost \/ replica = [ret |-> TRUE])
                    => aborted \/ inv'[i].pc = "s_mconn"]_vars

\* setSecret has ended with TopologyMismatch: the secret's host is not the
\* master's, and the instance it names replicates another source.
C11_Witness ==
  /\ last.step = "setSecret"
  /\ last.result = "TopologyMismatch"
  /\ \E c \in CurrentVersions :
       /\ payload[c].host # masterSecret.host
       /\ payload[c].host[1] \in DOMAIN rds.instances
       /\ Len(rds.instances[payload[c].host[1]]) > 0

\* The step whose invocation in slot i takes this transition.
ActingStep(i) == IF inv[i].pc # "idle" THEN inv[i].step ELSE inv'[i].step

(* C12: only a finishSecret invocation changes which version holds
   AWSCURRENT; setSecret and testSecret write no version and no label;
   createSecret, testSecret and finishSecret create no role, grant nothing
   and change no password. *)
C12_StepFootprints ==
  [][/\ CurrentVersions' # CurrentVersions =>
          \E i \in Procs : inv'[i] # inv[i] /\ ActingStep(i) = "finishSecret"
     /\ \A i \in Procs :
          inv'[i] # inv[i] =>
            /\ ActingStep(i) # "finishSecret" => CurrentVersions' = CurrentVersions
            /\ ActingStep(i) \in {"setSecret", "testSecret"}
                 => UNCHANGED <<stages, payload>>
            /\ ActingStep(i) \in {"createSecret", "testSecret", "finishSecret"}
                 => UNCHANGED dbVars]_vars

\* The four steps have all written: the second version is AWSCURRENT, the
\* first AWSPREVIOUS, the alternate role exists with the second version's
\* password, and a further createSecret has stored a third version.
C12_Witness ==
  /\ CurrentVersions = {1}
  /\ PreviousVersions = {0}
  /\ payload[1] # NoValue /\ payload[2] # NoValue
  /\ RoleExists(payload[1].username)
  /\ roles[payload[1].username] = payload[1].password
  /\ \E i \in Procs : inv[i].step = "testSecret" /\ inv[i].pc = "t_query"

\* The trigger issues a new version (the only writer besides the program).
TriggerWrites == issued' # issued

(* C13: a step invocation that fails leaves no partial effect.  Every
   change of the store's labels or values, or of the committed roles,
   passwords and grants, that the program makes is made by the transition
   with which an invocation returns successfully; so all transitions of an
   invocation that ends with an error leave them as they were. *)
C13_FailureLeavesNoEffect ==
  [][<<stages, payload, roles, grants>>' # <<stages, payload, roles, grants>>
       => \/ TriggerWrites
          \/ /\ last'.seq # last.seq
             /\ last'.result = "ok"
             /\ \E i \in Procs : Completes(i)]_vars

\* setSecret has failed for a version that is still pending and whose role
\* it had to create: the role does not exist, nothing is granted.
C13_Witness ==
  /\ AllIdle
  /\ last.step = "setSecret"
  /\ last.result \notin {"ok", "none"}
  /\ last.token \in PendingVersions
  /\ payload[last.token] # NoValue
  /\ payload[last.token].username = get_alt_username(S_app)
  /\ ~ RoleExists(payload[last.token].username)
  /\ grants = {}

\* Slot i runs setSecret for the token whose setSecret was the last
\* invocation to end, and that one succeeded.
SetAgain(i) ==
  /\ inv[i].pc # "idle"
  /\ inv[i].step = "setSecret"
  /\ last.step = "setSecret"
  /\ last.result = "ok"
  /\ last.token = inv[i].token

(* C14: setSecret invoked again with the token of a setSecret that has
   just succeeded never takes the role-creation path, changes no role,
   password or grant, fails only when a database connection cannot be
   opened, and, when it commits, returns successfully with the pending
   role's password equal to the pending version's password. *)
C14_SetAgainSameDatabase ==
  [][\A i \in Procs :
       (SetAgain(i) /\ inv'[i] # inv[i]) =>
         /\ inv'[i].pc # "s_create"
         /\ UNCHANGED dbVars
         /\ Completes(i) =>
              last'.result \in {"ok", "ConnectionFailed", "MasterConnectionFailed"}
         /\ inv[i].pc = "s_commit" =>
              \/ inv'[i].pc = "idle" /\ last'.result = "Aborted"
              \/ /\ Completes(i)
                 /\ last'.result = "ok"
                 /\ inv[i].tx = "alter"
                 /\ roles'[payload[inv[i].token].username]
                      = payload[inv[i].token].password]_vars

\* The second setSecret is about to commit its password update.
C14_Witness ==
  \E i \in Procs :
    /\ SetAgain(i)
    /\ inv[i].pc = "s_commit"
    /\ inv[i].tx = "alter"
    /\ <<S_app, payload[inv[i].token].username>> \in grants

\* Slot i runs testSecret and takes this transition.
TestActs(i) ==
  inv[i].pc # "idle" /\ inv[i].step = "testSecret" /\ inv'[i] # inv[i]

Faulted(i) == inv'[i].pc = "idle" /\ last'.result = "Aborted"

(* C15 as stated: a testSecret invocation that does not succeed fails with
   CredentialNotUsable.  It does not hold: testSecret first reads the
   pending version and fails with the store's error when it has no value. *)
C15_TestFailsOnlyNotUsable ==
  [][\A i \in Procs :
       (TestActs(i) /\ Completes(i))
         => last'.result \in {"ok", "CredentialNotUsable"}]_vars

(* C15: once testSecret has read the pending version of its token, it
   succeeds only after a connection with that version's credential was
   opened, fails with CredentialNotUsable when none could be opened, and
   with nothing else; before that it fails with the error of the read.
   testSecret changes no version and no label. *)
C15_TestFollowsConnection ==
  [][\A i \in Procs :
       TestActs(i) =>
         /\ UNCHANGED <<stages, payload>>
         /\ (Completes(i) /\ last'.result = "ok") => inv[i].pc = "t_query"
         /\ (Completes(i) /\ last'.result = "CredentialNotUsable")
              => inv[i].pc = "t_conn"
         /\ inv[i].pc = "t_pend" =>
              /\ inv'[i].pc = "t_conn" => inv'[i].pend = payload[inv[i].token]
              /\ Completes(i) =>
                   last'.result = get_secret_dict("secret", "AWSPENDING",
                                                  inv[i].token, FALSE).err
         /\ inv[i].pc = "t_conn" =>
              /\ inv'[i].pc = "t_query" => Authenticates(inv[i].pend)
              /\ Completes(i) => last'.result = "CredentialNotUsable"
              /\ ~ Authenticates(inv[i].pend) =>
                   Faulted(i) \/ (Completes(i) /\ last'.result = "CredentialNotUsable")
         /\ inv[i].pc = "t_query" =>
              Faulted(i) \/ (Completes(i) /\ last'.result = "ok")]_vars

\* testSecret has failed with CredentialNotUsable on a pending version whose
\* credential the database does not accept (setSecret has not run).
C15_Witness ==
  /\ last.step = "testSecret"
  /\ last.result = "CredentialNotUsable"
  /\ last.token \in PendingVersions
  /\ payload[last.token] # NoValue
  /\ ~ Authenticates(payload[last.token])

AltCalled(n) == call.op = "get_alt_username" /\ Len(call.rets) >= n

(* C16: for every username n of at most 63 characters whose alternate is
   defined and has at most 63 characters, the alternate of the alternate is
   defined and is n.  It does not hold: a name that ends with the marker
   twice loses one marker at each application. *)
C16_AlternateInvolution ==
  (/\ AltCalled(1)
   /\ call.rets[1] # UsernameTooLong
   /\ Len(call.arg) <= MaxUsernameLen
   /\ Len(call.rets[1]) <= MaxUsernameLen)
    => (AltCalled(2) => call.rets[2] = call.arg)

\* The name ends with the clone marker, said without get_alt_username's words.
EndsWithMarker(name) ==
  \E k \in 0 .. Len(name) : name = SubSeq(name, 1, k) \o clone_suffix

(* C17: get_alt_username returns the name without its trailing marker when
   the name ends with it, whatever the lengths; the name with the marker
   appended when it does not and that has at most 63 characters; it fails
   with UsernameTooLong exactly when the name does not end with the marker
   and the appended form is longer than 63 characters; what it returns is
   never the name itself. *)
C17_AlternateCases ==
  AltCalled(1) =>
    LET name == call.arg
        ret == call.rets[1]
    IN /\ EndsWithMarker(name) => ret \o clone_suffix = name
       /\ (~ EndsWithMarker(name) /\ Len(name) + Len(clone_suffix) <= MaxUsernameLen)
            => ret = name \o clone_suffix
       /\ ret = UsernameTooLong
            <=> (~ EndsWithMarker(name)
                 /\ Len(name) + Len(clone_suffix) > MaxUsernameLen)
       /\ ret # name

\* The longest name that still gets the marker appended has been given.
C17_Witness ==
  /\ AltCalled(1)
  /\ Len(call.arg) + Len(clone_suffix) = MaxUsernameLen
  /\ ~ EndsWithMarker(call.arg)
  /\ Len(call.rets[1]) = MaxUsernameLen

\* Two strings are equal when case is ignored.
SameIgnoringCase(s, word) ==
  /\ Len(s) = Len(word)
  /\ \A k \in 1 .. Len(word) : s[k] = word[k] \/ s[k] = upper(word[k])

SslResolved == call.op = "get_connection" /\ call.pc # "ssl_config"

(* C18: the SSL policy resolved from a secret is (require, fallback) when
   the ssl key is absent; (b, no fallback) for a boolean b; (true, no
   fallback) and (false, no fallback) for a string equal to "true" and to
   "false" ignoring case; (require, fallback) for any other string and any
   other type.  Fallback is allowed only together with require. *)
C18_SslPolicy ==
  SslResolved =>
    LET d == call.secret_dict
        require == call.cfg[1]
        fallback == call.cfg[2]
    IN /\ "ssl" \notin DOMAIN d => require /\ fallback
       /\ "ssl" \in DOMAIN d =>
            /\ d.ssl.type = "bool" => require = d.ssl.b /\ ~ fallback
            /\ d.ssl.type = "str" =>
                 /\ SameIgnoringCase(d.ssl.s, S_true) => require /\ ~ fallback
                 /\ SameIgnoringCase(d.ssl.s, S_false) => ~ require /\ ~ fallback
                 /\ (~ SameIgnoringCase(d.ssl.s, S_true)
                       /\ ~ SameIgnoringCase(d.ssl.s, S_false))
                      => require /\ fallback
            /\ d.ssl.type = "other" => require /\ fallback
       /\ fallback => require

\* The policy of a secret whose ssl is "false" in mixed case is resolved.
C18_Witness ==
  /\ SslResolved
  /\ "ssl" \in DOMAIN call.secret_dict
  /\ call.secret_dict.ssl.type = "str"
  /\ call.secret_dict.ssl.s = <<"F", "a", "l", "S", "e">>
  /\ call.cfg = <<FALSE, FALSE>>

(* C19: one get_connection call makes at most two attempts: the first with
   the resolved SSL requirement; a second, not requiring SSL, only after the
   first failed and when fallback is allowed.  It returns the connection of
   the first attempt that succeeds, and none only when every attempt it may
   make has failed; without fallback it stops after the first attempt. *)
C19_AtMostOneFallback ==
  call.op = "get_connection" =>
    LET attempts == call.attempts
        n == Len(attempts)
    IN /\ n <= 2
       /\ n >= 1 => attempts[1].use_ssl = call.cfg[1]
       /\ n = 2 => /\ ~ attempts[1].conn
                   /\ call.cfg[2]
                   /\ ~ attempts[2].use_ssl
       /\ call.pc = "done" =>
            /\ n >= 1
            /\ call.ret = attempts[n].conn
            /\ call.ret <=> \E k \in 1 .. n : attempts[k].conn
            /\ ~ call.cfg[2] => n = 1
            /\ (call.cfg[2] /\ ~ attempts[1].conn) => n = 2
            /\ call.ret = get_connection(call.secret_dict, call.up1, call.up2)

\* The first attempt, requiring SSL, failed and the fallback returned a
\* connection.
C19_Witness ==
  /\ call.op = "get_connection"
  /\ call.pc = "done"
  /\ Len(call.attempts) = 2
  /\ call.attempts[1].use_ssl /\ ~ call.attempts[1].conn
  /\ call.ret

\* The control plane knows no instance, no cluster, of that identifier.
NoSuchInstance(id) ==
  id \notin DOMAIN rds.instances \/ Len(rds.instances[id]) = 0
NoSuchCluster(id) ==
  id \notin DOMAIN rds.clusters \/ Len(rds.clusters[id]) = 0

\* The lookup the replica check makes for these two secrets finds nothing:
\* the candidate's instance, the master member's instance, or the cluster.
Unresolvable(current_dict, master_dict) ==
  IF master_dict.engine = "postgres" THEN NoSuchInstance(current_dict.host[1])
  ELSE IF Contains(master_dict.host[2], S_cluster)
       THEN NoSuchCluster(master_dict.host[1])
  ELSE NoSuchInstance(master_dict.host[1])

(* C20: when the hosts differ and the control-plane lookup of the
   candidate's instance, of the master member's instance or of the cluster
   finds nothing, the replica check returns false and setSecret fails with
   TopologyMismatch, not with a lookup error.  It does not hold: the lookups
   raise, and setSecret ends with their error. *)
C20_UnresolvedIsMismatch ==
  [][\A i \in Procs :
       (/\ AtTopology(i)
        /\ Completes(i)
        /\ inv[i].cur.host # masterSecret.host
        /\ Unresolvable(inv[i].cur, masterSecret))
         => /\ is_rds_replica_database(inv[i].cur, masterSecret) = [ret |-> FALSE]
            /\ last'.result = "TopologyMismatch"]_vars

\* The identifier of the master's cluster: the first label of a cluster
\* endpoint, the owning cluster of a member endpoint (NoValue when the
\* control plane does not tell).
MasterClusterId(master_dict) ==
  IF Contains(master_dict.host[2], S_cluster) THEN master_dict.host[1]
  ELSE IF NoSuchInstance(master_dict.host[1]) THEN NoValue
  ELSE IF "DBClusterIdentifier" \notin DOMAIN rds.instances[master_dict.host[1]][1]
       THEN NoValue
  ELSE rds.instances[master_dict.host[1]][1].DBClusterIdentifier

ClusterResolved(master_dict) ==
  /\ master_dict.engine = "aurora-postgresql"
  /\ MasterClusterId(master_dict) # NoValue
  /\ ~ NoSuchCluster(MasterClusterId(master_dict))

\* The candidate is the cluster's reader endpoint or one of its readers.
ReaderOfCluster(candidate, cluster) ==
  \/ "ReaderEndpoint" \in DOMAIN cluster /\ candidate.host = cluster.ReaderEndpoint
  \/ /\ "DBClusterMembers" \in DOMAIN cluster
     /\ \E k \in DOMAIN cluster.DBClusterMembers :
          /\ cluster.DBClusterMembers[k].DBInstanceIdentifier = candidate.host[1]
          /\ cluster.DBClusterMembers[k].IsClusterWriter = FALSE

(* C21: for the clustered engine with the master's cluster resolved, the
   replica check made by setSecret is true exactly when the candidate's host
   is the cluster's reader endpoint or its first label names a member that
   is not the writer: setSecret then goes on to the master connection, and
   otherwise fails with TopologyMismatch. *)
C21_ClusterReplicaExactly ==
  [][\A i \in Procs :
       (/\ AtTopology(i)
        /\ inv'[i] # inv[i]
        /\ inv[i].cur.host # masterSecret.host
        /\ ClusterResolved(masterSecret))
         => LET cluster == rds.clusters[MasterClusterId(masterSecret)][1]
                expected == ReaderOfCluster(inv[i].cur, cluster)
            IN /\ is_rds_replica_database(inv[i].cur, masterSecret) = [ret |-> expected]
               /\ expected => Faulted(i) \/ inv'[i].pc = "s_mconn"
               /\ ~ expected
                    => Faulted(i)
                       \/ (Completes(i) /\ last'.result = "TopologyMismatch")]_vars

\* setSecret has accepted a candidate that is the reader among the two
\* members of the cluster its master's member endpoint belongs to.
C21_Witness ==
  \E i \in Procs :
    /\ inv[i].step = "setSecret"
    /\ inv[i].pc = "s_mconn"
    /\ ClusterResolved(masterSecret)
    /\ ~ Contains(masterSecret.host[2], S_cluster)
    /\ inv[i].cur.host = ReplicaHost
    /\ Len(rds.clusters[MasterClusterId(masterSecret)][1].DBClusterMembers) = 2

\* Version t is AWSCURRENT with that username, version t - 1 AWSPREVIOUS
\* with the other one.
Rotated(t, username, previous_username) ==
  /\ CurrentVersions = {t}
  /\ PreviousVersions = {t - 1}
  /\ payload[t].username = username
  /\ payload[t - 1].username = previous_username

(* C22: from a secret whose AWSCURRENT user is app, with createSecret,
   setSecret, testSecret, finishSecret invoked in order for a pending token
   and each invoked again until it succeeds, the rotation ends: the token's
   version is AWSCURRENT with user app_clone and the version before it
   AWSPREVIOUS with user app.  A second rotation with a new token ends with
   AWSCURRENT's user app again. *)
C22_RotationAlternates ==
  /\ (issued = 1 /\ RotationInProgress)
       ~> Rotated(1, get_alt_username(S_app), S_app)
  /\ (issued = 2 /\ RotationInProgress)
       ~> Rotated(2, S_app, get_alt_username(S_app))

\* The second rotation has ended: the user is app again, the clone's
\* version is the previous one, and both roles authenticate.
C22_Witness ==
  /\ AllIdle
  /\ issued = 2
  /\ Rotated(2, S_app, S_app \o clone_suffix)
  /\ last.step = "finishSecret" /\ last.result = "ok" /\ last.token = 2
  /\ Authenticates(payload[2])
  /\ Authenticates(payload[1])

\* Positions of setSecret from the master connection on.
MasterPositions == {"s_mconn", "s_exists", "s_create", "s_alter", "s_commit"}

(* C23: setSecret first tries to log in with the pending secret and returns
   when that login succeeds; it goes to the master connection only when the
   pending credential is refused.  It does not hold: setSecret never logs in
   with the pending secret, and goes to the master session also when the
   database accepts the pending credential. *)
C23_PendingLoginReturns ==
  [][\A i \in Procs :
       (/\ inv[i].step = "setSecret"
        /\ inv[i].pend # NoValue
        /\ Authenticates(inv[i].pend))
         => inv'[i].pc \notin MasterPositions]_vars

(* C24: in every setSecret invocation the master session is reached only
   through the validations, in this order: a connection with the current
   credential has succeeded and the pending username and host have passed
   the comparison, then the topology validation has passed.  When the
   database refuses the current credential, setSecret fails at the
   connection, and the master secret is not fetched before the topology
   validation. *)
C24_MasterSessionAfterChecks ==
  [][\A i \in Procs :
       (inv[i].step = "setSecret" /\ inv'[i] # inv[i]) =>
         /\ inv'[i].pc \in MasterPositions
              => inv[i].pc \in {"s_master"} \cup MasterPositions
         /\ inv'[i].pc = "s_conn2"
              => /\ inv[i].pc = "s_conn1"
                 /\ Authenticates(inv[i].cur)
                 /\ ~ Mismatch(inv[i].cur, inv[i].pend)
         /\ inv'[i].pc = "s_master"
              => /\ inv[i].pc = "s_conn2"
                 /\ Authenticates(inv[i].cur)
                 /\ ~ Mismatch(inv[i].cur, inv[i].pend)
         /\ (inv[i].pc = "s_master" /\ inv'[i].pc = "s_mconn")
              => \/ inv[i].cur.host = inv'[i].master.host
                 \/ is_rds_replica_database(inv[i].cur, inv'[i].master) = [ret |-> TRUE]
         /\ (inv[i].pc \in {"s_conn1", "s_conn2"} /\ ~ Authenticates(inv[i].cur))
              => /\ inv'[i].pc = "idle"
                 /\ last'.result \in {"ConnectionFailed", "Aborted"}
         /\ inv[i].pc \notin ({"s_master"} \cup MasterPositions)
              => inv'[i].master = NoValue]_vars

\* setSecret has failed at the connection with a current credential that
\* the database refuses, for a pending version that names the alternate
\* user on the same host.
C24_Witness ==
  /\ AllIdle
  /\ last.step = "setSecret"
  /\ last.result = "ConnectionFailed"
  /\ \E c \in CurrentVersions :
       /\ ~ Authenticates(payload[c])
       /\ last.token \in PendingVersions
       /\ payload[last.token] # NoValue
       /\ ~ Mismatch(payload[c], payload[last.token])

(* C25: a setSecret invocation returns successfully only from its commit.
   If no role of the pending username existed, the role then exists with
   the pending password and is granted membership of the current user's
   role; if it existed, its password is the pending password and no grant
   is added.  In both cases the pending credential authenticates after the
   commit, nothing else in the database has changed, and the current user's
   role and password are as before. *)
C25_SetCreatesOrAlters ==
  [][\A i \in Procs :
       (inv[i].step = "setSecret" /\ Completes(i) /\ last'.result = "ok") =>
         LET current_dict == inv[i].cur
             pending_dict == inv[i].pend
             existed == RoleExists(pending_dict.username)
         IN /\ inv[i].pc = "s_commit"
            /\ inv[i].tx = IF existed THEN "alter" ELSE "create"
            /\ roles' = [roles EXCEPT ![pending_dict.username] = pending_dict.password]
            /\ grants' = IF existed THEN grants
                         ELSE grants \cup {<<current_dict.username, pending_dict.username>>}
            /\ pending_dict.host \in DbHosts
            /\ roles'[pending_dict.username] = pending_dict.password
            /\ RoleExists(current_dict.username)
            /\ roles'[current_dict.username] = roles[current_dict.username]]_vars

\* Both paths have been taken: the clone was created and granted the first
\* user's role, and in a later rotation the first user's password was
\* changed with no grant added.
C25_Witness ==
  /\ last.step = "setSecret"
  /\ last.result = "ok"
  /\ last.token = 2
  /\ payload[1] # NoValue /\ payload[2] # NoValue
  /\ grants = {<<S_app, S_app \o clone_suffix>>}
  /\ roles[S_app] = payload[2].password
  /\ roles[S_app] # InitPassword
  /\ roles[S_app \o clone_suffix] = payload[1].password

\* Invocation i ends in this step, in whatever way.
Ends(i) == inv[i].pc # "idle" /\ inv'[i].pc = "idle"

(* C26 as stated: when a setSecret or testSecret invocation ends, in
   whatever way, the work of its session has been committed.  It does not
   hold: when a statement or a call raises, the session is closed without a
   commit and what it had executed is discarded. *)
C26_EveryExitCommits ==
  [][\A i \in Procs :
       (Ends(i) /\ inv[i].tx # "none")
         => roles'[inv[i].pend.username] = inv[i].pend.password]_vars

(* C26: a session is held only between its connection and the end of the
   statements run over it; when a setSecret or testSecret invocation has
   ended, in whatever way, it holds no session.  The work of the session is
   committed when the invocation returns successfully, and discarded when
   it ends otherwise. *)
C26_SessionsClosed ==
  [][\A i \in Procs :
       /\ inv[i].pc = "idle" => inv[i].conn = "none" /\ inv[i].tx = "none"
       /\ inv[i].conn = "master"
            <=> (inv[i].step = "setSecret" /\ inv[i].pc \in MasterPositions \ {"s_mconn"})
       /\ inv[i].conn = "pending"
            <=> (inv[i].step = "testSecret" /\ inv[i].pc = "t_query")
       /\ inv[i].tx # "none" => inv[i].conn = "master"
       /\ Ends(i) =>
            /\ inv'[i].conn = "none"
            /\ (inv[i].tx # "none" /\ last'.result = "ok")
                 => roles'[inv[i].pend.username] = inv[i].pend.password
            /\ last'.result # "ok" => UNCHANGED dbVars]_vars

\* A setSecret invocation whose validations can pass has ended by a fault:
\* no session is held, and the role it was to create does not exist.
C26_Witness ==
  /\ AllIdle
  /\ \A i \in Procs : inv[i].conn = "none"
  /\ last.step = "setSecret"
  /\ last.result = "Aborted"
  /\ last.token \in PendingVersions
  /\ payload[last.token] # NoValue
  /\ \E c \in CurrentVersions :
       /\ Authenticates(payload[c])
       /\ ~ Mismatch(payload[c], payload[last.token])
  /\ ~ RoleExists(payload[last.token].username)

\* The linkage tags of the master secret, in the order they are listed.
LinkageTags ==
  IF "Tags" \notin DOMAIN masterTags THEN <<>>
  ELSE SelectSeq(masterTags.Tags,
                 LAMBDA tag : tag.Key \in {"aws:rds:primaryDBInstanceArn",
                                           "aws:rds:primarydbinstancearn",
                                           "aws:rds:primaryDBClusterArn",
                                           "aws:rds:primarydbclusterarn"})

FetchDone == call.op = "get_secret_dict" /\ call.pc = "done"

(* C27: get_secret_dict for a master secret whose keys are exactly username
   and password takes host, port and engine from the control plane, asked
   once with the ARN of the secret's linkage tag; without a linkage tag it
   asks nothing and fails with MissingField; with an ARN longer than 256
   characters it asks nothing and fails with InvalidArn.  When the secret is
   not read as a master secret, or has any other key set, nothing is asked
   and the value is validated as it is stored. *)
C27_MasterEnrichment ==
  FetchDone =>
    LET secret == masterSecret
        enrich == call.master_secret /\ DOMAIN secret = {"username", "password"}
        asked == call.described
        ret == call.ret
    IN /\ ret = get_secret_dict("master", "AWSCURRENT", NoToken, call.master_secret)
       /\ ~ enrich =>
            /\ asked = <<>>
            /\ ret = IF ~ ({"host", "username", "password", "engine"} \subseteq DOMAIN secret)
                     THEN Err("MissingField")
                     ELSE secret
       /\ (enrich /\ LinkageTags = <<>>) =>
            asked = <<>> /\ ret = Err("MissingField")
       /\ (enrich /\ LinkageTags # <<>>) =>
            LET tag == LinkageTags[Len(LinkageTags)]
                cluster == tag.Key = "aws:rds:primaryDBClusterArn"
                found == IF cluster THEN ~ NoSuchCluster(tag.Value)
                         ELSE ~ NoSuchInstance(tag.Value)
            IN /\ Len(tag.Value) > 256 => asked = <<>> /\ ret = Err("InvalidArn")
               /\ Len(tag.Value) <= 256 =>
                    /\ asked = <<tag.Value>>
                    /\ ~ found => IsErr(ret) /\ ret.err \in {"Exception", "ValueError"}
                    /\ found =>
                         LET record == IF cluster THEN rds.clusters[tag.Value][1]
                                       ELSE rds.instances[tag.Value][1]
                         IN IF record.Engine \notin {"postgres", "aurora-postgresql"}
                            THEN ret = Err("UnsupportedEngine")
                            ELSE /\ ret.engine = record.Engine
                                 /\ ret.host = IF cluster THEN record.Endpoint
                                               ELSE record.Endpoint.Address
                                 /\ ret.port = IF cluster THEN record.Port
                                               ELSE record.Endpoint.Port
                                 /\ ret.username = secret.username
                                 /\ ret.password = secret.password

\* The master secret made by RDS has been completed from the instance that
\* the longest ARN allowed names.
C27_Witness ==
  /\ FetchDone
  /\ call.master_secret
  /\ DOMAIN masterSecret = {"username", "password"}
  /\ call.described = <<LongestArn>>
  /\ ~ IsErr(call.ret)
  /\ call.ret.host = PrimaryHost

\* The step taken moves AWSCURRENT to another version (finish_secret's store
\* call is the only one that does).
Promotes == {v \in Versions : "AWSCURRENT" \in stages[v]}'
              # {v \in Versions : "AWSCURRENT" \in stages[v]}

(* C28: at most one version holds AWSPENDING in every reachable state, and
   AWSPENDING marks only a version awaiting promotion: a version that holds
   AWSCURRENT (a promoted one) does not hold AWSPENDING. *)
C28_PendingOnlyAwaitingPromotion ==
  /\ Cardinality(PendingVersions) <= 1
  /\ \A v \in Versions : "AWSCURRENT" \in stages[v] => "AWSPENDING" \notin stages[v]

(* What the code keeps of it: at most one version holds AWSPENDING in every
   reachable state, and the promotion by finish_secret moves AWSCURRENT
   only, so the versions that hold AWSPENDING are the same before and after
   it. *)
PromotionKeepsPending ==
  /\ [](Cardinality(PendingVersions) <= 1)
  /\ [][Promotes =>
          {v \in Versions : "AWSPENDING" \in stages[v]}' = PendingVersions]_vars

\* finish_secret has promoted the second rotation's version, which holds
\* AWSPENDING still, and no other version holds it.
C28_Witness ==
  /\ stages[2] = {"AWSCURRENT", "AWSPENDING"}
  /\ PendingVersions = {2}
  /\ "AWSPREVIOUS" \in stages[1]
  /\ \E i \in Procs : inv[i].pc = "idle"

====
